---- MODULE Spec2Model ----
(***************************************************************************)
(* Model of the easylish vector-api ingestion pipeline:                    *)
(*   - the SRT subtitle parser (services/ingestion.py and the copy inside  *)
(*     main._ingest_dir), the filename parser and the text helpers of      *)
(*     utils.py, on strings represented as sequences of one-character      *)
(*     strings;                                                            *)
(*   - the two ingestion drivers (main.ingest + main._ingest_dir, and      *)
(*     IngestionService.ingest_directory) as interleaved processes whose   *)
(*     steps are the code between two awaits.                              *)
(***************************************************************************)
EXTENDS Integers, Sequences, FiniteSets, TLC

\* ------------------------------------------------------------------ bounds
MaxLines == 7
MaxStem == 5
MaxJobs == 2
NumFiles == 1
MaxTexts == 3
MaxBatch == 2
MaxOps == 2
MaxPoints == 11
MaxRaw == 2
MaxRandom == 2
MaxCalls == 2
MaxChars == 3
MaxMinWords == 3
LimitSpan == 20
MaxPairStem == 3

\* ------------------------------------------------------------- config.py
RANDOM_SEARCH_LIMIT == 50
RANDOM_MAX_RETRIES == 20
RANDOM_MIN_WORDS == 3
RANDOM_FALLBACK_BATCH_SIZE == 100

\* ------------------------------------------------------- Python-like values
\* Optional values: None is the empty tuple, a present value x is <<x>>.
None == <<>>
Some(x) == <<x>>
Val(o) == o[1]

Digits == {"0", "1", "2", "3", "4", "5", "6", "7", "8", "9"}
\* characters for which str.isdigit() is true although int() rejects them and
\* \d does not match them; "^2" stands for the one character SUPERSCRIPT TWO
SuperDigits == {"^2"}
Whitespace == {" "}
UpperCase == <<"A", "B", "C", "D", "E", "F", "G", "H", "I", "J", "K", "L", "M",
               "N", "O", "P", "Q", "R", "S", "T", "U", "V", "W", "X", "Y", "Z">>
LowerCase == <<"a", "b", "c", "d", "e", "f", "g", "h", "i", "j", "k", "l", "m",
               "n", "o", "p", "q", "r", "s", "t", "u", "v", "w", "x", "y", "z">>
Letters == {UpperCase[i] : i \in 1..26} \cup {LowerCase[i] : i \in 1..26}
\* "^I" stands for the one character LATIN CAPITAL LETTER I WITH DOT ABOVE, a
\* letter whose str.lower() is two characters: "i" and COMBINING DOT ABOVE, here
\* "^.", a mark that neither \w nor \s matches
DottedI == "^I"
DotAbove == "^."
\* \w of the re module: letters, digits (any numeric character) and underscore
WordChars == Letters \cup {DottedI} \cup Digits \cup SuperDigits \cup {"_"}

DigitVal(c) ==
  CASE c = "0" -> 0 [] c = "1" -> 1 [] c = "2" -> 2 [] c = "3" -> 3
    [] c = "4" -> 4 [] c = "5" -> 5 [] c = "6" -> 6 [] c = "7" -> 7
    [] c = "8" -> 8 [] c = "9" -> 9

DigitChar(d) == <<"0", "1", "2", "3", "4", "5", "6", "7", "8", "9">>[d + 1]

\* str.isdigit(): non-empty and every character is a digit character
isdigit(s) == Len(s) > 0 /\ \A i \in 1..Len(s) : s[i] \in Digits \cup SuperDigits

\* int(s) raises ValueError unless s is a decimal literal
IntRaises(s) == ~(Len(s) > 0 /\ \A i \in 1..Len(s) : s[i] \in Digits)

RECURSIVE int(_)
int(s) ==
  IF Len(s) = 0 THEN 0
  ELSE int(SubSeq(s, 1, Len(s) - 1)) * 10 + DigitVal(s[Len(s)])

\* str(n) / f"{n}" of a non-negative integer
RECURSIVE str(_)
str(n) == IF n < 10 THEN <<DigitChar(n)>> ELSE str(n \div 10) \o <<DigitChar(n % 10)>>

\* str.strip()
RECURSIVE lstrip(_)
lstrip(s) == IF Len(s) > 0 /\ s[1] \in Whitespace THEN lstrip(Tail(s)) ELSE s

RECURSIVE rstrip(_)
rstrip(s) ==
  IF Len(s) > 0 /\ s[Len(s)] \in Whitespace THEN rstrip(SubSeq(s, 1, Len(s) - 1)) ELSE s

strip(s) == rstrip(lstrip(s))

\* " ".join(parts)
RECURSIVE join(_)
join(parts) ==
  IF Len(parts) = 0 THEN <<>>
  ELSE IF Len(parts) = 1 THEN parts[1]
  ELSE parts[1] \o <<" ">> \o join(Tail(parts))

\* str.lower() on one character
lower(c) ==
  IF \E i \in 1..26 : UpperCase[i] = c
  THEN LowerCase[CHOOSE i \in 1..26 : UpperCase[i] = c]
  ELSE c

\* re.sub(r"\s+", " ", s): every maximal run of whitespace becomes one space
\* (a whitespace character that follows another is marked "" and dropped, the
\* first of a run becomes a space)
collapse_ws(s) ==
  LET marked == [i \in 1..Len(s) |->
                   IF s[i] \notin Whitespace THEN s[i]
                   ELSE IF i > 1 /\ s[i - 1] \in Whitespace THEN ""
                   ELSE " "]
      kept(c) == c # ""
  IN SelectSeq(marked, kept)

\* str.lower() of a string: character by character, the dotted capital I giving
\* two characters
RECURSIVE str_lower(_)
str_lower(s) ==
  IF Len(s) = 0 THEN <<>>
  ELSE IF Len(s) = 1
    THEN (IF s[1] = DottedI THEN <<"i", DotAbove>> ELSE <<lower(s[1])>>)
  ELSE LET half == Len(s) \div 2
       IN str_lower(SubSeq(s, 1, half)) \o str_lower(SubSeq(s, half + 1, Len(s)))

\* utils.normalize_text (and main._normalize_text, which has the same body)
normalize_text(s) ==
  LET punct == [i \in 1..Len(s) |->
                  IF s[i] \in WordChars \cup Whitespace THEN s[i] ELSE " "]
      t == strip(collapse_ws(punct))
  IN str_lower(t)

\* first index of character c in s, 0 when absent
IndexOf(s, c) ==
  IF \E i \in 1..Len(s) : s[i] = c
  THEN CHOOSE i \in 1..Len(s) : s[i] = c /\ \A j \in 1..(i - 1) : s[j] # c
  ELSE 0

\* the mutant drops the minutes term
parse_srt_time_nomin(t) ==
  LET c1 == IndexOf(t, ":")
      hh == SubSeq(t, 1, c1 - 1)
      r1 == SubSeq(t, c1 + 1, Len(t))
      c2 == IndexOf(r1, ":")
      rest == SubSeq(r1, c2 + 1, Len(r1))
      c3 == IndexOf(rest, ",")
      ss == SubSeq(rest, 1, c3 - 1)
      ms == SubSeq(rest, c3 + 1, Len(rest))
  IN (int(hh) * 3600 + int(ss)) * 1000 + int(ms)

\* utils.parse_srt_time: "HH:MM:SS,mmm" to milliseconds
parse_srt_time(t) ==
  LET c1 == IndexOf(t, ":")
      hh == SubSeq(t, 1, c1 - 1)
      r1 == SubSeq(t, c1 + 1, Len(t))
      c2 == IndexOf(r1, ":")
      mm == SubSeq(r1, 1, c2 - 1)
      rest == SubSeq(r1, c2 + 1, Len(r1))
      c3 == IndexOf(rest, ",")
      ss == SubSeq(rest, 1, c3 - 1)
      ms == SubSeq(rest, c3 + 1, Len(rest))
  IN (int(hh) * 3600 + int(mm) * 60 + int(ss)) * 1000 + int(ms)

\* ------------------------------------------------- the timing-line pattern
\* \d{2}:\d{2}:\d{2},\d{3} at position i of line
StampAt(line, i) ==
  /\ i >= 1
  /\ i + 11 <= Len(line)
  /\ \A k \in {0, 1, 3, 4, 6, 7, 9, 10, 11} : line[i + k] \in Digits
  /\ line[i + 2] = ":"
  /\ line[i + 5] = ":"
  /\ line[i + 8] = ","

\* \s* from position i: the first position at or after i that is not whitespace
RECURSIVE SkipWs(_, _)
SkipWs(line, i) ==
  IF i <= Len(line) /\ line[i] \in Whitespace THEN SkipWs(line, i + 1) ELSE i

ArrowAt(line, i) ==
  i + 2 <= Len(line) /\ line[i] = "-" /\ line[i + 1] = "-" /\ line[i + 2] = ">"

\* the whole pattern matches starting at position i
TimingAt(line, i) ==
  /\ StampAt(line, i)
  /\ ArrowAt(line, SkipWs(line, i + 12))
  /\ StampAt(line, SkipWs(line, SkipWs(line, i + 12) + 3))

\* re.search(r"(\d{2}:\d{2}:\d{2},\d{3})\s*-->\s*(\d{2}:\d{2}:\d{2},\d{3})", line):
\* None, or the two groups of the leftmost match
time_match(line) ==
  IF \E i \in 1..Len(line) : TimingAt(line, i)
  THEN LET i == CHOOSE i \in 1..Len(line) :
                  TimingAt(line, i) /\ \A j \in 1..(i - 1) : ~TimingAt(line, j)
           k == SkipWs(line, SkipWs(line, i + 12) + 3)
       IN Some(<<SubSeq(line, i, i + 11), SubSeq(line, k, k + 11)>>)
  ELSE None

\* ------------------------------------------- IngestionService._parse_filename
\* os.path.splitext(filename)[0]: cut at the last dot, unless only dots precede it
splitext_root(filename) ==
  LET dots == {i \in 1..Len(filename) : filename[i] = "."}
      cut == {i \in dots : \E j \in 1..(i - 1) : filename[j] # "."}
  IN IF cut = {} THEN filename
     ELSE SubSeq(filename, 1, (CHOOSE i \in cut : \A j \in cut : j <= i) - 1)

\* (?:_(\d+))?$ matches the whole of s: s is empty, or "_" and one or more digits
EpisodeSuffix(s) ==
  \/ Len(s) = 0
  \/ /\ Len(s) >= 2
     /\ s[1] = "_"
     /\ \A i \in 2..Len(s) : s[i] \in Digits

\* the mutant makes group 1 greedy: (.*) takes the longest prefix
FilenameSplit_greedy(base) ==
  CHOOSE k \in 0..Len(base) :
    /\ EpisodeSuffix(SubSeq(base, k + 1, Len(base)))
    /\ \A j \in (k + 1)..Len(base) : ~EpisodeSuffix(SubSeq(base, j + 1, Len(base)))

\* re.match(r"^(.*?)(?:_(\d+))?$", base): the length of group 1, which is lazy,
\* so the shortest prefix after which the rest matches
FilenameSplit(base) ==
  CHOOSE k \in 0..Len(base) :
    /\ EpisodeSuffix(SubSeq(base, k + 1, Len(base)))
    /\ \A j \in 0..(k - 1) : ~EpisodeSuffix(SubSeq(base, j + 1, Len(base)))

_parse_filename(filename) ==
  LET base == splitext_root(filename)
      k == FilenameSplit(base)
      group2 == SubSeq(base, k + 2, Len(base))
  IN [video_id |-> SubSeq(base, 1, k),
      episode |-> IF Len(group2) > 0 THEN int(group2) ELSE 1]

\* -------------------------------------- IngestionService._parse_srt_content
\* f"{video_id}_{episode}_{seq}"
entry_id(video_id, episode, seq) ==
  video_id \o <<"_">> \o str(episode) \o <<"_">> \o str(seq)

ParserStart ==
  [state |-> "seq", seq |-> None, start_time |-> None, end_time |-> None,
   text_lines |-> <<>>, entries |-> <<>>, raised |-> FALSE]

\* the mutant emits and never clears the block state
flush_block_keep(ps, video_id, episode) ==
  IF ps.seq = None \/ ps.start_time = None \/ ps.end_time = None THEN ps
  ELSE LET text == strip(join(ps.text_lines))
       IN IF text = <<>> THEN ps
          ELSE [ps EXCEPT
                  !.entries = Append(@,
                     [id |-> entry_id(video_id, episode, Val(ps.seq)),
                      text |-> text,
                      normalized_text |-> normalize_text(text),
                      payload |-> [video_id |-> video_id,
                                   episode |-> episode,
                                   sequence |-> Val(ps.seq),
                                   start_ms |-> Val(ps.start_time),
                                   end_ms |-> Val(ps.end_time),
                                   text |-> text,
                                   normalized_text |-> normalize_text(text)]])]

\* flush_block of _parse_srt_content: the block state is cleared only after an emit
flush_block(ps, video_id, episode) ==
  IF ps.seq = None \/ ps.start_time = None \/ ps.end_time = None THEN ps
  ELSE LET text == strip(join(ps.text_lines))
           normalized == normalize_text(text)
       IN IF text = <<>> THEN ps
          ELSE [ps EXCEPT
                  !.entries = Append(@,
                     [id |-> entry_id(video_id, episode, Val(ps.seq)),
                      text |-> text,
                      normalized_text |-> normalized,
                      payload |-> [video_id |-> video_id,
                                   episode |-> episode,
                                   sequence |-> Val(ps.seq),
                                   start_ms |-> Val(ps.start_time),
                                   end_ms |-> Val(ps.end_time),
                                   text |-> text,
                                   normalized_text |-> normalized]]),
                  !.seq = None, !.start_time = None, !.end_time = None,
                  !.text_lines = <<>>]

\* the mutant forgets "state = 'seq'" after a blank line
parse_line_nostate(ps, line, video_id, episode) ==
  IF ps.raised THEN ps
  ELSE IF line = <<>>
    THEN flush_block(ps, video_id, episode)
  ELSE IF ps.state = "seq"
    THEN IF isdigit(line)
           THEN IF IntRaises(line) THEN [ps EXCEPT !.raised = TRUE]
                ELSE [ps EXCEPT !.seq = Some(int(line)), !.state = "time"]
           ELSE ps
  ELSE IF ps.state = "time"
    THEN LET time_m == time_match(line)
         IN IF time_m # None
              THEN [ps EXCEPT !.start_time = Some(parse_srt_time(Val(time_m)[1])),
                              !.end_time = Some(parse_srt_time(Val(time_m)[2])),
                              !.state = "text"]
              ELSE ps
  ELSE [ps EXCEPT !.text_lines = Append(@, line)]

\* one iteration of "for line in lines + ['']"; raised: int(line) threw
parse_line(ps, line, video_id, episode) ==
  IF ps.raised THEN ps
  ELSE IF line = <<>>
    THEN [flush_block(ps, video_id, episode) EXCEPT !.state = "seq"]
  ELSE IF ps.state = "seq"
    THEN IF isdigit(line)
           THEN IF IntRaises(line) THEN [ps EXCEPT !.raised = TRUE]
                ELSE [ps EXCEPT !.seq = Some(int(line)), !.state = "time"]
           ELSE ps
  ELSE IF ps.state = "time"
    THEN LET time_m == time_match(line)
         IN IF time_m # None
              THEN [ps EXCEPT !.start_time = Some(parse_srt_time(Val(time_m)[1])),
                              !.end_time = Some(parse_srt_time(Val(time_m)[2])),
                              !.state = "text"]
              ELSE ps
  ELSE [ps EXCEPT !.text_lines = Append(@, line)]

\* "for line in lines + ['']": the ValueError of int(line) leaves the loop
RECURSIVE parse_lines(_, _, _, _)
parse_lines(ps, lines, video_id, episode) ==
  IF Len(lines) = 0 THEN ps
  ELSE LET after == parse_line(ps, lines[1], video_id, episode)
       IN IF after.raised THEN after
          ELSE parse_lines(after, Tail(lines), video_id, episode)

\* lines = [line.strip() for line in content.splitlines()]
strip_lines(raw_lines) == [i \in 1..Len(raw_lines) |-> strip(raw_lines[i])]

\* the mutant iterates over the lines alone
loop_lines_noblank(lines) == lines

\* lines + [""]: the loop sees one blank line after the last real line
loop_lines(lines) == lines \o <<<<>>>>

\* _parse_srt_content(content, video_id, episode), content given as its lines
_parse_srt_content(raw_lines, video_id, episode) ==
  parse_lines(ParserStart, loop_lines(strip_lines(raw_lines)), video_id, episode)

\* ---------------------------------------------- the parser of main._ingest_dir
\* the per-file locals of _ingest_dir; the two batches are nonlocal and persist
MainParserStart(entries_batch, texts_batch) ==
  [state |-> "seq", seq |-> None, start |-> None, end |-> None,
   text_lines |-> <<>>, entries_batch |-> entries_batch,
   texts_batch |-> texts_batch, raised |-> FALSE]

\* flush_block of _ingest_dir: stashes the entry, clears nothing
main_flush_block(mp, video_id, episode) ==
  IF mp.seq = None \/ mp.start = None \/ mp.end = None THEN mp
  ELSE LET text == strip(join(mp.text_lines))
           norm == normalize_text(text)
       IN IF text = <<>> THEN mp
          ELSE [mp EXCEPT
                  !.entries_batch = Append(@,
                     [id |-> entry_id(video_id, episode, Val(mp.seq)),
                      payload |-> [video_id |-> video_id,
                                   episode |-> episode,
                                   sequence |-> Val(mp.seq),
                                   start_ms |-> Val(mp.start),
                                   end_ms |-> Val(mp.end),
                                   text |-> text,
                                   normalized_text |-> norm]]),
                  !.texts_batch = Append(@, IF norm # <<>> THEN norm ELSE text)]

\* one iteration of "for ln in lines + ['']" in _ingest_dir
main_parse_line(mp, ln, video_id, episode) ==
  IF mp.raised THEN mp
  ELSE IF ln = <<>>
    THEN [main_flush_block(mp, video_id, episode) EXCEPT
            !.seq = None, !.start = None, !.end = None, !.text_lines = <<>>,
            !.state = "seq"]
  ELSE IF mp.state = "seq"
    THEN IF isdigit(ln)
           THEN IF IntRaises(ln) THEN [mp EXCEPT !.raised = TRUE]
                ELSE [mp EXCEPT !.seq = Some(int(ln)), !.state = "time"]
           ELSE mp
  ELSE IF mp.state = "time"
    THEN LET mt == time_match(ln)
         IN IF mt # None
              THEN [mp EXCEPT !.start = Some(parse_srt_time(Val(mt)[1])),
                              !.end = Some(parse_srt_time(Val(mt)[2])),
                              !.state = "text"]
              ELSE mp
  ELSE [mp EXCEPT !.text_lines = Append(@, ln)]

\* "for ln in lines + ['']": the ValueError of int(ln) leaves the loop
RECURSIVE main_parse_lines(_, _, _, _)
main_parse_lines(mp, lines, video_id, episode) ==
  IF Len(lines) = 0 THEN mp
  ELSE LET after == main_parse_line(mp, lines[1], video_id, episode)
       IN IF after.raised THEN after
          ELSE main_parse_lines(after, Tail(lines), video_id, episode)

\* the parsing part of one file of _ingest_dir (lines 372-425)
main_parse_file(raw_lines, video_id, episode, entries_batch, texts_batch) ==
  main_parse_lines(MainParserStart(entries_batch, texts_batch),
                   loop_lines(strip_lines(raw_lines)), video_id, episode)

\* ------------------------------------------------------------ sample inputs
\* "show_01.srt" and the two-block file of the round-trip example
ExampleName == <<"s", "h", "o", "w", "_", "0", "1", ".", "s", "r", "t">>

ExampleLines ==
  << <<"1">>,
     <<"0", "0", ":", "0", "0", ":", "0", "1", ",", "0", "0", "0", " ", "-", "-", ">",
       " ", "0", "0", ":", "0", "0", ":", "0", "2", ",", "0", "0", "0">>,
     <<"H", "e", "l", "l", "o", " ", "w", "o", "r", "l", "d">>,
     <<>>,
     <<"2">>,
     <<"0", "0", ":", "0", "0", ":", "0", "3", ",", "5", "0", "0", " ", "-", "-", ">",
       " ", "0", "0", ":", "0", "0", ":", "0", "4", ",", "2", "5", "0">>,
     <<"B", "o", "n", "j", "o", "u", "r">> >>

Srt == <<".", "s", "r", "t">>

ExampleShape == <<"seq", "time", "text", "blank", "seq", "time", "text">>

\* A generated file is described by its shape, the class of each of its lines; the
\* text of a line is a function of its class and its position, so that every
\* sequence number, timing and text of a file differs from the others.
Classes == {"blank", "seq", "time", "text"}

Pad2(n) == <<DigitChar(n \div 10), DigitChar(n % 10)>>
Pad3(n) == <<DigitChar(n \div 100), DigitChar((n \div 10) % 10), DigitChar(n % 10)>>

StartStamp(i) == [h |-> i % 2, m |-> i % 3, s |-> i, ms |-> (i * 250) % 1000]
EndStamp(i) == [h |-> i % 2, m |-> i % 3, s |-> i + 1, ms |-> (i * 125) % 1000]

FormatStamp(st) ==
  Pad2(st.h) \o <<":">> \o Pad2(st.m) \o <<":">> \o Pad2(st.s) \o <<",">> \o Pad3(st.ms)

\* ((H*3600+M*60+S)*1000+ms)
StampMs(st) == ((st.h * 3600 + st.m * 60 + st.s) * 1000) + st.ms

GenLine(class, i) ==
  CASE class = "blank" -> IF i % 2 = 0 THEN <<" ">> ELSE <<>>
    [] class = "seq" -> IF i % 2 = 0 THEN <<" ", "0">> \o str(i) ELSE str(i)
    [] class = "time" ->
         IF i % 2 = 0
         THEN <<"x", " ">> \o FormatStamp(StartStamp(i)) \o <<"-", "-", ">">>
                \o FormatStamp(EndStamp(i)) \o <<" ">>
         ELSE FormatStamp(StartStamp(i)) \o <<" ", "-", "-", ">", " ">>
                \o FormatStamp(EndStamp(i))
    [] class = "text" ->
         IF i % 3 = 0 THEN <<"?", "!">>
         ELSE IF i % 2 = 0 THEN <<" ", "O", "k", " ", DigitChar(i % 10)>>
         ELSE <<"H", "i", ",", DigitChar(i % 10), "!">>

GenLines(shape) == [i \in 1..Len(shape) |-> GenLine(shape[i], i)]

Shapes == UNION {[1..n -> Classes] : n \in 0..MaxLines}

\* --------------------------------------------------------------- the state
VARIABLES
  pin,      \* parser check: the file handed to the parsers (shape, lines)
  pout,     \* parser check: None, or the results of both parsers
  fname,    \* filename check: the filename handed to _parse_filename
  fparsed,  \* filename check: None, or the result
  app,         \* which application serves: "main" (main.py) or "services"
  JOB,         \* main.JOB
  tasks,       \* main: the background tasks created by ingest, in creation order
  response,    \* main: None, or the last response of POST /ingest
  job_status,  \* IngestionService.job_status
  svc,         \* services: the call of ingest_directory in progress, if any
  calls,       \* services: number of calls of ingest_directory made
  coll,        \* vector store: whether the collection exists
  store,       \* vector store: the points of the collection, by point key
  requests,    \* history: parity of the number of POST /ingest requests handled
  ingested,    \* history: the files whose points were upserted in full
  again,       \* history: a file already ingested in full was ingested in full again
  emb,         \* the call of embed_texts (or of main.tei_embed) under way
  gw,          \* the operations of QdrantService called so far, each with its position
  rnd,         \* the call of get_random_subtitle under way
  util         \* the calls of one function of utils.py (or of search_vectors): its
               \* name, its argument and the results of the calls made

pvars == <<pin, pout, fname, fparsed>>
\* the calls of the other services, which the drivers and the parsers leave alone
svars == <<emb, gw, rnd, util>>
fixed == <<pin, pout, fname, fparsed, app, svars>>
dvars_only == <<app, JOB, tasks, response, requests, job_status, svc, calls, coll,
                store, ingested, again>>
dvars == <<dvars_only, svars>>
vars == <<pin, pout, fname, fparsed, app, JOB, tasks, response, requests, job_status,
          svc, calls, coll, store, ingested, again, emb, gw, rnd, util>>

\* ------------------------------------------------------------ the directory
\* Directory "d1" holds the files show_01.srt .. show_<NumFiles>.srt: the odd ones
\* are the two-block example, the even ones a block without timing, a good block
\* and then a sequence line that isdigit() accepts and int() rejects. Directory
\* "d2" holds two more files: one of the second kind, and one that has no entry
\* (a block without timing).
FileName(k) == <<"s", "h", "o", "w", "_">> \o Pad2(k) \o Srt

RaisingLines ==
  GenLines(<<"seq", "text", "blank", "seq", "time", "text", "blank">>) \o << <<"^2">> >>

FileLines(k) ==
  IF k = NumFiles + 2 THEN GenLines(<<"seq", "text", "text">>)
  ELSE IF k = NumFiles + 1 THEN RaisingLines
  ELSE IF k % 2 = 1 THEN ExampleLines
  ELSE RaisingLines

Dirs == {"d1", "d2"}

\* [f for f in os.listdir(dir_path) if f.endswith(".srt")]
listdir(dir_path) ==
  IF dir_path = "d1" THEN [k \in 1..NumFiles |-> k]
  ELSE <<NumFiles + 1, NumFiles + 2>>

\* video_id, episode = self._parse_filename(filename), for each file
FileIdentity == [k \in 1..(NumFiles + 2) |-> _parse_filename(FileName(k))]

\* self._parse_srt_content(content, video_id, episode), for each file
FileParsed ==
  [k \in 1..(NumFiles + 2) |->
     _parse_srt_content(FileLines(k), FileIdentity[k].video_id,
                        FileIdentity[k].episode)]

\* the parser of _ingest_dir on each file, started with empty batches
MainFileParsed ==
  [k \in 1..(NumFiles + 2) |->
     main_parse_file(FileLines(k), FileIdentity[k].video_id,
                     FileIdentity[k].episode, <<>>, <<>>)]

JobIdle == [running |-> FALSE, total |-> 0, upserted |-> 0, errors |-> 0, dir |-> None]

\* JOB.update({"running": True, "total": 0, "upserted": 0, "errors": 0, "dir": dir_path})
JobReset(dir_path) ==
  [running |-> TRUE, total |-> 0, upserted |-> 0, errors |-> 0, dir |-> Some(dir_path)]

SvcIdle(exit) ==
  [pc |-> "idle", dir |-> None, files |-> <<>>, i |-> 0, entries |-> <<>>,
   points |-> <<>>, did |-> "none", exit |-> exit]

\* no call of embed_texts has been made
EmbIdle ==
  [pc |-> "idle", impl |-> "none", texts |-> <<>>, batch |-> 0, n |-> 0,
   chunks |-> <<>>, k |-> 0,
   out |-> <<>>, sent |-> <<>>, last |-> None, result |-> None]

\* no call of get_random_subtitle has been made
RndIdle ==
  [pc |-> "idle", n |-> 0, quality |-> "none", arg |-> None, min_words |-> 0,
   retry_count |-> 0,
   results |-> <<>>, tries |-> 0, searches |-> 0, scrolls |-> 0, valid1 |-> FALSE,
   store_failed |-> FALSE, result |-> None]

\* no function of utils.py has been called
UtilIdle == [fn |-> "none", arg |-> None, out |-> <<>>]

ServicesIdle == emb = EmbIdle /\ gw = <<>> /\ rnd = RndIdle /\ util = UtilIdle

\* no file is at the parsers
ParserIdle ==
  /\ pin = [shape |-> <<>>, lines |-> <<>>, gen |-> TRUE]
  /\ pout = None
  /\ fname = <<>>
  /\ fparsed = None

DriverIdle ==
  /\ JOB = JobIdle
  /\ tasks = <<>>
  /\ response = None
  /\ requests = 0
  /\ job_status = JobIdle
  /\ svc = SvcIdle("none")
  /\ calls = 0
  /\ coll = FALSE
  /\ store = <<>>
  /\ ingested = {}
  /\ again = FALSE

\* --------------------------------------------------------- the vector store
\* str(uuid.uuid4()): a fresh random UUID, represented by a name that no stored
\* point has
uuid4(raw) ==
  [kind |-> "uuid4", v |-> raw \o <<"#">> \o str(Cardinality(DOMAIN store))]

\* the mutant takes the last-resort branch on every call
safe_point_id_random(raw) == uuid4(raw)

\* utils.safe_point_id (and main._safe_point_id, which has the same body) on a
\* string: all digits gives int(s), and the random UUID of the outer except
\* clause when int(s) raises; the raw ids of ingestion hold an underscore and are
\* shorter than the 32 hexadecimal digits of a UUID, so their key is the UUIDv5
\* of "easylish:" + s, represented by its name
safe_point_id(raw) ==
  IF isdigit(raw)
    THEN (IF IntRaises(raw) THEN uuid4(raw) ELSE [kind |-> "int", v |-> str(int(raw))])
    ELSE [kind |-> "uuid5", v |-> <<"e", "a", "s", "y", "l", "i", "s", "h", ":">> \o raw]

\* client.upsert(COLLECTION, points=points): a point replaces the one stored under
\* its key; of two points of one call with the same key the later one stays
RECURSIVE upsert(_, _)
upsert(st, points) ==
  IF Len(points) = 0 THEN st
  ELSE LET p == points[1]
           keys == DOMAIN st \cup {p.id}
       IN upsert([k \in keys |-> IF k = p.id THEN [vector |-> p.vector,
                                                     payload |-> p.payload]
                                  ELSE st[k]],
                 Tail(points))

\* the embedding backend returns one vector per text; a vector is represented by
\* the text it embeds
EmbedAll(texts) == texts
\* a backend answer that is one vector short, which tei_embed returns as it is
EmbedShort(texts) == SubSeq(texts, 1, Len(texts) - 1)

Min(a, b) == IF a < b THEN a ELSE b

\* [PointStruct(id=safe_point_id(e["id"]), vector=v, payload=e["payload"])
\*  for e, v in zip(entries, vectors)]
zip_points(entries, vectors) ==
  [k \in 1..Min(Len(entries), Len(vectors)) |->
     [id |-> safe_point_id(entries[k].id), vector |-> vectors[k],
      payload |-> entries[k].payload]]

\* ------------------------------------------ main.py: POST /ingest, _ingest_dir
\* the mutant accepts every start request
ingest_accepts_always(job) == TRUE

\* "if JOB.get('running'): return {...accepted: False...}" guards the start
ingest_accepts(job) == ~job.running

\* did: how the file the task handled last ended
NewTask(dir_path) ==
  [pc |-> "scheduled", dir |-> dir_path, files |-> <<>>, i |-> 0,
   points_batch |-> <<>>, texts_batch |-> <<>>, entries_batch |-> <<>>,
   did |-> "none"]

\* the handler of POST /ingest: no await between the test and bg.add_task; the
\* task itself starts later, after the response has been sent
Ingest(dir_path) ==
  /\ app = "main"
  /\ IF ingest_accepts(JOB)
       THEN /\ Len(tasks) < MaxJobs
            /\ tasks' = Append(tasks, NewTask(dir_path))
            /\ response' = Some([accepted |-> TRUE, dir |-> Some(dir_path)])
       ELSE /\ tasks' = tasks
            /\ response' = Some([accepted |-> FALSE, running |-> TRUE,
                                 dir |-> JOB.dir])
  /\ requests' = 1 - requests
  /\ UNCHANGED <<JOB, job_status, svc, calls, coll, store, ingested, again>>

\* _ingest_dir up to its first await: the reset of JOB, then the scan, which may
\* raise (the exception ends the task: nothing catches it)
TaskStart(t) ==
  /\ app = "main"
  /\ tasks[t].pc = "scheduled"
  /\ \/ /\ JOB' = [JobReset(tasks[t].dir) EXCEPT
                     !.total = Len(listdir(tasks[t].dir))]
        /\ tasks' = [tasks EXCEPT ![t].pc = "ensure",
                                  ![t].files = listdir(tasks[t].dir),
                                  ![t].i = 1]
     \/ /\ JOB' = JobReset(tasks[t].dir)
        /\ tasks' = [tasks EXCEPT ![t].pc = "crashed"]
  /\ UNCHANGED <<response, requests, job_status, svc, calls, coll, store, ingested,
                 again>>

\* await ensure_collection(client): get, create on miss; may raise
TaskEnsure(t) ==
  /\ app = "main"
  /\ tasks[t].pc = "ensure"
  /\ \/ /\ coll' = TRUE
        /\ tasks' = [tasks EXCEPT ![t].pc = "file"]
     \/ /\ coll' = coll
        /\ tasks' = [tasks EXCEPT ![t].pc = "crashed"]
  /\ UNCHANGED <<JOB, response, requests, job_status, svc, calls, store, ingested,
                 again>>

\* the mutant keeps the batches of the failed file
except_reset_none(task) == task

\* "points_batch, texts_batch, entries_batch = [], [], []" of the except clause
except_reset(task) ==
  [task EXCEPT !.points_batch = <<>>, !.texts_batch = <<>>, !.entries_batch = <<>>]

\* the except clause of the file loop, then "continue"
TaskExcept(t, task) ==
  /\ JOB' = [JOB EXCEPT !.errors = @ + 1]
  /\ tasks' = [tasks EXCEPT ![t] = [except_reset(task) EXCEPT !.pc = "file",
                                                               !.i = @ + 1,
                                                               !.did = "error"]]

\* flush_block appends to the nonlocal batches: after the parser has run on the
\* file, the batches are those before it followed by what the file stashed
main_parse_into(task, k) ==
  [task EXCEPT !.entries_batch = @ \o MainFileParsed[k].entries_batch,
               !.texts_batch = @ \o MainFileParsed[k].texts_batch]

\* one file of the loop up to "await tei_embed": open/read may raise, the parser
\* may raise with entries of the file already stashed in the batches
TaskFile(t) ==
  /\ app = "main"
  /\ tasks[t].pc = "file"
  /\ tasks[t].i <= Len(tasks[t].files)
  /\ LET task == tasks[t]
         k == task.files[task.i]
         parsed == main_parse_into(task, k)
     IN \/ TaskExcept(t, task)
        \/ /\ MainFileParsed[k].raised
           /\ TaskExcept(t, parsed)
        \/ /\ ~MainFileParsed[k].raised
           /\ Len(parsed.texts_batch) = 0
           /\ tasks' = [tasks EXCEPT ![t] = [parsed EXCEPT !.i = @ + 1,
                                                           !.did = "empty"]]
           /\ JOB' = JOB
        \/ /\ ~MainFileParsed[k].raised
           /\ Len(parsed.texts_batch) > 0
           /\ tasks' = [tasks EXCEPT ![t] = [parsed EXCEPT !.pc = "embed"]]
           /\ JOB' = JOB
  /\ UNCHANGED <<response, requests, job_status, svc, calls, coll, store, ingested,
                 again>>

\* "vectors = await tei_embed(texts_batch)" and the zip into points_batch:
\* tei_embed raises, or returns the vectors of the backend, whose number it does
\* not check
TaskEmbed(t) ==
  /\ app = "main"
  /\ tasks[t].pc = "embed"
  /\ LET task == tasks[t]
     IN \/ TaskExcept(t, task)
        \/ \E vectors \in {EmbedAll(task.texts_batch), EmbedShort(task.texts_batch)} :
             /\ tasks' = [tasks EXCEPT
                            ![t].points_batch = @ \o zip_points(task.entries_batch, vectors),
                            ![t].pc = "upsert"]
             /\ JOB' = JOB
  /\ UNCHANGED <<response, requests, job_status, svc, calls, coll, store, ingested,
                 again>>

\* "await client.upsert(COLLECTION, points=points_batch)", the counter, the reset
TaskUpsert(t) ==
  /\ app = "main"
  /\ tasks[t].pc = "upsert"
  /\ LET task == tasks[t]
         file == task.files[task.i]
         full == Len(task.points_batch) = Len(task.entries_batch)
     IN \/ /\ TaskExcept(t, task)
           /\ UNCHANGED <<store, ingested, again>>
        \/ /\ store' = upsert(store, task.points_batch)
           /\ JOB' = [JOB EXCEPT !.upserted = @ + Len(task.points_batch)]
           /\ tasks' = [tasks EXCEPT ![t].points_batch = <<>>,
                                     ![t].texts_batch = <<>>,
                                     ![t].entries_batch = <<>>,
                                     ![t].pc = "file",
                                     ![t].i = @ + 1,
                                     ![t].did = IF full THEN "upserted" ELSE "part"]
           /\ ingested' = IF full THEN ingested \cup {file} ELSE ingested
           /\ again' = (again \/ (full /\ file \in ingested))
  /\ UNCHANGED <<response, requests, job_status, svc, calls, coll>>

\* after the loop: JOB["running"] = False
TaskFinish(t) ==
  /\ app = "main"
  /\ tasks[t].pc = "file"
  /\ tasks[t].i > Len(tasks[t].files)
  /\ JOB' = [JOB EXCEPT !.running = FALSE]
  /\ tasks' = [tasks EXCEPT ![t].pc = "done"]
  /\ UNCHANGED <<response, requests, job_status, svc, calls, coll, store, ingested,
                 again>>

\* ------------------------------------ IngestionService.ingest_directory
\* the mutant has no finally clause
finally_running_kept(status) == status

\* finally: self.job_status["running"] = False
finally_running(status) == [status EXCEPT !.running = FALSE]

\* A call of ingest_directory (its caller is not part of the sources; calls are
\* made one after the other) up to "await qdrant_service.ensure_collection()":
\* the reset, then the scan inside the try, which may raise
SvcCall(dir_path) ==
  /\ app = "services"
  /\ svc.pc = "idle"
  /\ calls < MaxJobs
  /\ calls' = calls + 1
  /\ \/ /\ job_status' = [JobReset(dir_path) EXCEPT !.total = Len(listdir(dir_path))]
        /\ svc' = [SvcIdle("none") EXCEPT !.pc = "ensure", !.dir = Some(dir_path),
                                          !.files = listdir(dir_path), !.i = 1]
     \/ /\ job_status' = finally_running(JobReset(dir_path))
        /\ svc' = SvcIdle("raised")
  /\ UNCHANGED <<JOB, tasks, response, requests, coll, store, ingested, again>>

\* await qdrant_service.ensure_collection(): get, create on miss; may raise
SvcEnsure ==
  /\ app = "services"
  /\ svc.pc = "ensure"
  /\ \/ /\ coll' = TRUE
        /\ svc' = [svc EXCEPT !.pc = "file"]
        /\ job_status' = job_status
     \/ /\ coll' = coll
        /\ job_status' = finally_running(job_status)
        /\ svc' = SvcIdle("raised")
  /\ UNCHANGED <<JOB, tasks, response, requests, calls, store, ingested, again>>

\* the mutant lets the exception of a file end the loop: no later file is tried
svc_next_file_abort(call) == Len(call.files) + 1

\* "continue" of the except clause: the loop goes on with the next file
svc_next_file(call) == call.i + 1

\* except Exception: self.job_status["errors"] += 1; continue
SvcExcept ==
  /\ job_status' = [job_status EXCEPT !.errors = @ + 1]
  /\ svc' = [svc EXCEPT !.pc = "file", !.i = svc_next_file(svc),
                        !.entries = <<>>, !.points = <<>>, !.did = "error"]

\* the mutant goes on with a file that has no entry
no_entries_never(entries) == FALSE

\* "if not entries: ... return" of _process_srt_file
no_entries(entries) == Len(entries) = 0

\* _process_srt_file up to "await embedding_service.embed_texts": open/read or
\* the parser may raise; a file without entries returns at once
SvcFile ==
  /\ app = "services"
  /\ svc.pc = "file"
  /\ svc.i <= Len(svc.files)
  /\ LET ps == FileParsed[svc.files[svc.i]]
     IN \/ SvcExcept
        \/ /\ ps.raised
           /\ SvcExcept
        \/ /\ ~ps.raised
           /\ no_entries(ps.entries)
           /\ svc' = [svc EXCEPT !.i = @ + 1, !.did = "empty"]
           /\ job_status' = job_status
        \/ /\ ~ps.raised
           /\ ~no_entries(ps.entries)
           /\ svc' = [svc EXCEPT !.pc = "embed", !.entries = ps.entries]
           /\ job_status' = job_status
  /\ UNCHANGED <<JOB, tasks, response, requests, calls, coll, store, ingested, again>>

\* texts = [entry["normalized_text"] or entry["text"] for entry in entries]
svc_texts(entries) ==
  [k \in 1..Len(entries) |->
     IF entries[k].normalized_text # <<>> THEN entries[k].normalized_text
     ELSE entries[k].text]

\* "embeddings = await embedding_service.embed_texts(texts, 'raw')", which raises
\* or returns one vector per text (it checks the count of every batch), the count
\* check and the points
SvcEmbed ==
  /\ app = "services"
  /\ svc.pc = "embed"
  /\ \/ SvcExcept
     \/ LET embeddings == EmbedAll(svc_texts(svc.entries))
        IN /\ Len(embeddings) = Len(svc.entries)
           /\ svc' = [svc EXCEPT !.pc = "upsert",
                                 !.points = zip_points(svc.entries, embeddings)]
           /\ job_status' = job_status
  /\ UNCHANGED <<JOB, tasks, response, requests, calls, coll, store, ingested, again>>

\* "await qdrant_service.upsert_points(points)" and the counter
SvcUpsert ==
  /\ app = "services"
  /\ svc.pc = "upsert"
  /\ LET file == svc.files[svc.i]
     IN \/ /\ SvcExcept
           /\ UNCHANGED <<store, ingested, again>>
        \/ /\ store' = upsert(store, svc.points)
           /\ job_status' = [job_status EXCEPT !.upserted = @ + Len(svc.points)]
           /\ svc' = [svc EXCEPT !.pc = "file", !.i = @ + 1, !.entries = <<>>,
                                 !.points = <<>>, !.did = "upserted"]
           /\ ingested' = ingested \cup {file}
           /\ again' = (again \/ file \in ingested)
  /\ UNCHANGED <<JOB, tasks, response, requests, calls, coll>>

\* the loop is over: the finally clause, and the call returns
SvcReturn ==
  /\ app = "services"
  /\ svc.pc = "file"
  /\ svc.i > Len(svc.files)
  /\ job_status' = finally_running(job_status)
  /\ svc' = SvcIdle("returned")
  /\ UNCHANGED <<JOB, tasks, response, requests, calls, coll, store, ingested, again>>

\* ------------------------------------------- specification of the drivers
Init ==
  /\ app \in {"main", "services"}
  /\ DriverIdle
  /\ ServicesIdle
  /\ pin = [shape |-> <<>>, lines |-> <<>>, gen |-> TRUE]
  /\ pout = None
  /\ fname = <<>>
  /\ fparsed = None

Next ==
  \/ \E d \in Dirs : Ingest(d) /\ UNCHANGED fixed
  \/ \E t \in 1..Len(tasks) : TaskStart(t) /\ UNCHANGED fixed
  \/ \E t \in 1..Len(tasks) : TaskEnsure(t) /\ UNCHANGED fixed
  \/ \E t \in 1..Len(tasks) : TaskFile(t) /\ UNCHANGED fixed
  \/ \E t \in 1..Len(tasks) : TaskEmbed(t) /\ UNCHANGED fixed
  \/ \E t \in 1..Len(tasks) : TaskUpsert(t) /\ UNCHANGED fixed
  \/ \E t \in 1..Len(tasks) : TaskFinish(t) /\ UNCHANGED fixed
  \/ \E d \in Dirs : SvcCall(d) /\ UNCHANGED fixed
  \/ SvcEnsure /\ UNCHANGED fixed
  \/ SvcFile /\ UNCHANGED fixed
  \/ SvcEmbed /\ UNCHANGED fixed
  \/ SvcUpsert /\ UNCHANGED fixed
  \/ SvcReturn /\ UNCHANGED fixed

Spec == Init /\ [][Next]_vars

\* ------------------------------------------------- properties of the drivers
\* a task of _ingest_dir that has started and has not ended
Active(t) == tasks[t].pc \in {"ensure", "file", "embed", "upsert"}

\* C1: at most one ingestion job is active at any time: under every interleaving
\* of start requests and background execution, never are two _ingest_dir tasks
\* scheduled or running together.
C1_AtMostOneJob ==
  Cardinality({t \in 1..Len(tasks) : tasks[t].pc = "scheduled" \/ Active(t)}) <= 1

\* C2: a start request handled while JOB.running is true answers accepted=false,
\* running=true with the directory of the running job, schedules no task and
\* leaves every field of the job record as it was.
C2_RejectedStartChangesNothing ==
  [][(requests' # requests /\ JOB.running)
       => /\ response' = Some([accepted |-> FALSE, running |-> TRUE, dir |-> JOB.dir])
          /\ tasks' = tasks
          /\ JOB' = JOB]_vars

\* a rejected request whose job record had counters to lose
C2_Witness ==
  /\ response = Some([accepted |-> FALSE, running |-> TRUE, dir |-> JOB.dir])
  /\ JOB.running
  /\ JOB.total > 0
  /\ JOB.errors > 0
  /\ \E t \in 1..Len(tasks) : Active(t)

\* the step in which task t leaves a file through the except clause
MainFileFailed(t) == tasks'[t].i # tasks[t].i /\ tasks'[t].did = "error"

\* the step in which the call of ingest_directory leaves a file through the
\* except clause
SvcFileFailed == svc.pc # "idle" /\ svc'.i # svc.i /\ svc'.did = "error"

\* C3: in both drivers, when the processing of a file raises, errors grows by
\* exactly 1, upserted and the collection are unchanged by that file, the loop
\* goes on with the next file of the scan, no entry or point of the file is in
\* the batches when a later file starts, and the job ends only after the last
\* file of the scan.
C3_FileFailureIsolated ==
  /\ [](\A t \in 1..Len(tasks) :
          /\ tasks[t].pc = "file"
               => /\ tasks[t].points_batch = <<>>
                  /\ tasks[t].texts_batch = <<>>
                  /\ tasks[t].entries_batch = <<>>
          /\ tasks[t].pc = "done" => tasks[t].i = Len(tasks[t].files) + 1)
  /\ [](svc.pc = "file" => svc.entries = <<>> /\ svc.points = <<>>)
  /\ [][\A t \in 1..Len(tasks) :
          MainFileFailed(t)
            => /\ JOB'.errors = JOB.errors + 1
               /\ JOB'.upserted = JOB.upserted
               /\ store' = store
               /\ tasks'[t].pc = "file"
               /\ tasks'[t].i = tasks[t].i + 1
               /\ tasks'[t].files = tasks[t].files]_vars
  /\ [][SvcFileFailed
          => /\ job_status'.errors = job_status.errors + 1
             /\ job_status'.upserted = job_status.upserted
             /\ store' = store
             /\ svc'.pc = "file"
             /\ svc'.i = svc.i + 1
             /\ svc'.files = svc.files]_vars
  /\ [][(svc.pc = "file" /\ svc'.pc = "idle") => svc.i = Len(svc.files) + 1]_vars

\* the first file of a scan of two has failed after the parser had stashed an
\* entry, and the second file has been processed
C3_Witness ==
  \E t \in 1..Len(tasks) :
    /\ tasks[t].pc = "done"
    /\ Len(tasks[t].files) = 2
    /\ MainFileParsed[tasks[t].files[1]].raised
    /\ Len(MainFileParsed[tasks[t].files[1]].entries_batch) > 0
    /\ tasks[t].did = "empty"
    /\ JOB.errors = 1

\* C4: every started job, including one whose directory scan or initial
\* ensure_collection raises, leaves JOB.running false: once no task of
\* _ingest_dir is scheduled or running any more, running is false (and a later
\* start request is accepted).
C4_RunningFalseAfterJob ==
  (Len(tasks) > 0 /\ \A t \in 1..Len(tasks) : tasks[t].pc \in {"done", "crashed"})
    => ~JOB.running

\* C5: job_status.running is false whenever no call of ingest_directory is in
\* progress, whichever way the last call ended (returned, or raised from the scan
\* or from ensure_collection), and true at every point of a call in progress.
C5_RunningExactlyDuringCall ==
  /\ svc.pc = "idle" => ~job_status.running
  /\ svc.pc # "idle" => job_status.running

\* a call has ended by an exception
C5_Witness ==
  /\ svc.pc = "idle"
  /\ svc.exit = "raised"
  /\ calls > 0
  /\ job_status.dir # None
  /\ ~job_status.running

\* C6: a step that upserts, in full, a file whose points were upserted in full
\* before leaves the set of point keys of the collection, hence the point count,
\* unchanged.
C6_ReingestKeepsKeys ==
  /\ [][(/\ svc.pc = "upsert"
         /\ svc'.i = svc.i + 1
         /\ svc'.did = "upserted"
         /\ svc.files[svc.i] \in ingested)
          => DOMAIN store' = DOMAIN store]_vars
  /\ [][\A t \in 1..Len(tasks) :
          (/\ tasks[t].pc = "upsert"
           /\ tasks'[t].i = tasks[t].i + 1
           /\ tasks'[t].did = "upserted"
           /\ tasks[t].files[tasks[t].i] \in ingested)
            => DOMAIN store' = DOMAIN store]_vars

\* the service has ingested the two-entry example a second time
C6_Witness ==
  /\ app = "services"
  /\ again
  /\ calls = 2
  /\ Cardinality(DOMAIN store) = 2
  /\ job_status.upserted = 2

\* the point keys of the entries that the parser of _ingest_dir finds in file k
FileKeys(k) ==
  {safe_point_id(MainFileParsed[k].entries_batch[j].id) :
     j \in 1..Len(MainFileParsed[k].entries_batch)}

\* C13: main._ingest_dir never commits a file in part: of the points of a file,
\* the collection holds all or none (a wrong number of vectors from the backend
\* makes the file an error, and none of its points is upserted).
C13_NoPartialCommit ==
  app = "main" =>
    \A k \in 1..(NumFiles + 2) :
      FileKeys(k) \cap DOMAIN store \in {{}, FileKeys(k)}

\* C21: the counters of the job record are consistent during a job: written by
\* that job only, total once after the scan and errors once per failed file of
\* the scan, so that errors <= total in every reachable state, in both drivers.
C21_ErrorsAtMostTotal ==
  /\ JOB.errors <= JOB.total
  /\ job_status.errors <= job_status.total

\* the step in which the call of ingest_directory handles, without an exception,
\* a file that the parser finds no entry in
SvcEmptyFile ==
  /\ svc.pc = "file"
  /\ svc.i <= Len(svc.files)
  /\ ~FileParsed[svc.files[svc.i]].raised
  /\ FileParsed[svc.files[svc.i]].entries = <<>>
  /\ svc' # svc
  /\ ~SvcFileFailed

\* the same step of task t of _ingest_dir
MainEmptyFile(t) ==
  /\ tasks[t].pc = "file"
  /\ tasks[t].i <= Len(tasks[t].files)
  /\ ~MainFileParsed[tasks[t].files[tasks[t].i]].raised
  /\ MainFileParsed[tasks[t].files[tasks[t].i]].entries_batch = <<>>
  /\ Len(tasks') = Len(tasks)
  /\ tasks'[t] # tasks[t]
  /\ ~MainFileFailed(t)

\* C27: in both drivers a file that parses to no entry changes nothing: the job
\* goes straight to the next file of the scan, with no embedding request and no
\* upsert for the file, and with upserted, errors and the collection as they were.
C27_EmptyFileIsNoOp ==
  /\ [][SvcEmptyFile
          => /\ svc'.pc = "file"
             /\ svc'.i = svc.i + 1
             /\ svc'.entries = <<>> /\ svc'.points = <<>>
             /\ job_status' = job_status
             /\ store' = store]_vars
  /\ [][\A t \in 1..Len(tasks) :
          MainEmptyFile(t)
            => /\ tasks'[t].pc = "file"
               /\ tasks'[t].i = tasks[t].i + 1
               /\ tasks'[t].points_batch = <<>> /\ tasks'[t].texts_batch = <<>>
               /\ JOB' = JOB
               /\ store' = store]_vars

\* the service has gone past the file without entries, the second of its scan,
\* after the first one had upserted nothing
C27_Witness ==
  /\ app = "services"
  /\ svc.pc = "file"
  /\ svc.i = 3
  /\ svc.did = "empty"
  /\ FileParsed[svc.files[2]].entries = <<>>
  /\ job_status.total = 2
  /\ job_status.upserted = 0

\* ------------------------------- EmbeddingService.embed_texts, main.tei_embed
\* utils.chunk_list (and main._chunk): [lst[i: i + n] for i in range(0, len(lst), n)]
RECURSIVE chunk_list(_, _)
chunk_list(lst, n) ==
  IF Len(lst) = 0 THEN <<>>
  ELSE <<SubSeq(lst, 1, Min(n, Len(lst)))>>
         \o chunk_list(SubSeq(lst, Min(n, Len(lst)) + 1, Len(lst)), n)

\* utils.format_text_for_embedding
format_text_for_embedding(text, kind) ==
  LET t == strip(text)
  IN IF Len(t) = 0 THEN t
     ELSE IF kind = "e5_query" THEN <<"q", "u", "e", "r", "y", ":", " ">> \o t
     ELSE IF kind = "e5_passage"
       THEN <<"p", "a", "s", "s", "a", "g", "e", ":", " ">> \o t
     ELSE t

\* the mutant sends every text in a request of its own
batch_size_unit(configured) == 1

\* max(1, config.TEI_BATCH_SIZE)
batch_size(configured) == IF configured < 1 THEN 1 ELSE configured

\* The vector that is item pos, of the `of` items, of the answer to request req.
Vector(req, pos, of) == [req |-> req, pos |-> pos, of |-> of]

\* The items of an answer: n JSON values, each a list of floats (kind "list") or
\* an object with the key "embedding" (kind "dict"); item `hole`, if any, is an
\* object without an embedding.
Items(kind, req, n, hole) ==
  [j \in 1..n |-> [kind |-> IF j = hole THEN "dict_empty" ELSE kind,
                   embedding |-> Vector(req, j, n)]]

BodyShapes ==
  {"list_vectors", "list_dicts", "embeddings", "data_vectors", "data_dicts",
   "embedding", "other", "not_json"}

\* JSON bodies of the backend: a list, or an object with one key
Body(shape, req, n, hole) ==
  CASE shape = "list_vectors" ->
         [type |-> "list", key |-> "", items |-> Items("list", req, n, 0)]
    [] shape = "list_dicts" ->
         [type |-> "list", key |-> "", items |-> Items("dict", req, n, hole)]
    [] shape = "embeddings" ->
         [type |-> "dict", key |-> "embeddings", items |-> Items("list", req, n, 0)]
    [] shape = "data_vectors" ->
         [type |-> "dict", key |-> "data", items |-> Items("list", req, n, 0)]
    [] shape = "data_dicts" ->
         [type |-> "dict", key |-> "data", items |-> Items("dict", req, n, hole)]
    [] shape = "embedding" ->
         [type |-> "dict", key |-> "embedding", items |-> Items("list", req, 1, 0)]
    [] shape = "other" ->
         [type |-> "dict", key |-> "error", items |-> <<>>]
    [] shape = "not_json" ->
         [type |-> "not_json", key |-> "", items |-> <<>>]

Statuses == {200, 201, 500}

\* what http.post may give for request req with m inputs: a connection error, or
\* a status and a body of m - 1, m or m + 1 items
Responses(req, m) ==
  {[connect |-> FALSE, status |-> 0, body |-> Body("other", req, 0, 0)]}
  \cup {[connect |-> TRUE, status |-> st, body |-> Body(sh, req, n, h)] :
          st \in Statuses, sh \in BodyShapes,
          n \in {x \in {m - 1, m, m + 1} : x >= 0}, h \in {0, 1}}

HasEmbedding(d) == d.kind = "dict"

\* [d.get("embedding") for d in data if isinstance(d, dict) and d.get("embedding")]
dict_embeddings(items) ==
  LET sel == SelectSeq(items, HasEmbedding)
  IN [j \in 1..Len(sel) |-> sel[j].embedding]

\* a list of lists, taken as it is
list_embeddings(items) == [j \in 1..Len(items) |-> items[j].embedding]

\* "data and isinstance(data[0], list)" chooses between the two readings
list_or_dicts(items) ==
  IF Len(items) > 0 /\ items[1].kind = "list" THEN list_embeddings(items)
  ELSE dict_embeddings(items)

\* _parse_embedding_response (and the same lines of tei_embed): None when it raises
_parse_embedding_response(data) ==
  IF data.type = "list" THEN Some(list_or_dicts(data.items))
  ELSE IF data.type = "dict" /\ data.key = "embeddings"
    THEN Some(list_embeddings(data.items))
  ELSE IF data.type = "dict" /\ data.key = "data" THEN Some(list_or_dicts(data.items))
  ELSE IF data.type = "dict" /\ data.key = "embedding"
    THEN Some(<<data.items[1].embedding>>)
  ELSE None

\* "if response.status_code != 200: raise"
status_ok(status) == status = 200

\* "if len(embeddings) != len(texts): raise", which tei_embed of main.py lacks
count_ok(impl, embeddings, texts) == impl = "main" \/ Len(embeddings) = Len(texts)

\* _embed_chunk (impl "service") and the loop body of tei_embed (impl "main") on
\* the answer r: None when it raises, else the embeddings
_embed_chunk(impl, texts, r) ==
  IF ~r.connect THEN None
  ELSE IF ~status_ok(r.status) THEN None
  ELSE IF r.body.type = "not_json" THEN None
  ELSE LET parsed == _parse_embedding_response(r.body)
       IN IF parsed = None THEN None
          ELSE IF ~count_ok(impl, Val(parsed), texts) THEN None
          ELSE parsed

\* the mutant puts the vectors of a batch before those of the earlier batches
out_extend_front(out, embeddings) == embeddings \o out

\* out.extend(embeddings)
out_extend(out, embeddings) == out \o embeddings

\* the mutant swallows the exception of a batch and goes on with the next one
chunk_raised_skip(call) == [call EXCEPT !.k = @ + 1]

\* "except Exception as e: ...; raise": the call ends, nothing is returned
chunk_raised(call) == [call EXCEPT !.pc = "raised"]

\* embed_texts (tei_embed) up to the first request: empty input returns [] with no
\* request; else the texts are formatted (not by tei_embed) and cut into batches
EmbedCall(impl, texts, text_format, configured) ==
  /\ emb.pc = "idle"
  /\ emb.impl = "none"
  /\ LET formatted == IF impl = "main" THEN texts
                      ELSE [j \in 1..Len(texts) |->
                              format_text_for_embedding(texts[j], text_format)]
     IN emb' = IF Len(texts) = 0
                 THEN [EmbIdle EXCEPT !.pc = "returned", !.impl = impl,
                                      !.result = Some(<<>>)]
                 ELSE [EmbIdle EXCEPT !.pc = "chunk", !.impl = impl, !.texts = texts,
                                      !.batch = configured,
                                      !.n = batch_size(configured),
                                      !.chunks = chunk_list(formatted,
                                                            batch_size(configured)),
                                      !.k = 1]

\* one turn of the loop: the request of batch k and what becomes of its answer
EmbedChunk ==
  /\ emb.pc = "chunk"
  /\ emb.k <= Len(emb.chunks)
  /\ LET chunk == emb.chunks[emb.k]
     IN \E r \in Responses(Len(emb.sent) + 1, Len(chunk)) :
          LET embeddings == _embed_chunk(emb.impl, chunk, r)
              call == [emb EXCEPT !.sent = Append(@, chunk), !.last = Some(r)]
          IN emb' = IF embeddings = None
                      THEN chunk_raised(call)
                      ELSE [call EXCEPT !.out = out_extend(@, Val(embeddings)),
                                        !.k = @ + 1]

\* after the last batch: return out
EmbedReturn ==
  /\ emb.pc = "chunk"
  /\ emb.k > Len(emb.chunks)
  /\ emb' = [emb EXCEPT !.pc = "returned", !.result = Some(emb.out)]

\* the texts of a call: the first n of three, one of them padded, one blank
SampleTexts == << <<"a">>, <<" ", "b", " ">>, <<" ">>, <<"c">>, <<"d">> >>

EmbedInit ==
  /\ ServicesIdle
  /\ app = "none"
  /\ DriverIdle
  /\ ParserIdle

EmbedNext ==
  \/ /\ \E impl \in {"service", "main"}, n \in 0..MaxTexts,
          text_format \in {"raw", "e5_query"}, configured \in 0..MaxBatch :
          EmbedCall(impl, SubSeq(SampleTexts, 1, n), text_format, configured)
     /\ UNCHANGED <<pvars, dvars_only, gw, rnd, util>>
  \/ EmbedChunk /\ UNCHANGED <<pvars, dvars_only, gw, rnd, util>>
  \/ EmbedReturn /\ UNCHANGED <<pvars, dvars_only, gw, rnd, util>>

SpecEmbed == EmbedInit /\ [][EmbedNext]_vars

\* ------------------------------------------ properties of the embedding client
\* s ends with t
EndsWith(s, t) ==
  Len(t) <= Len(s) /\ SubSeq(s, Len(s) - Len(t) + 1, Len(s)) = t

RECURSIVE Flatten(_)
Flatten(seqs) == IF Len(seqs) = 0 THEN <<>> ELSE seqs[1] \o Flatten(Tail(seqs))

\* C11: when embed_texts returns, the output has one vector per input text, and
\* vector k is the one the backend gave for text k: it comes from the answer to
\* the batch that holds text k, at the position of text k in that batch (whenever
\* that answer had one item per text); the batches sent are the texts in order
\* (stripped, after the prefix of the format), cut every n, and an empty input returns the empty list without any request.
C11_OutputMatchesInput ==
  (emb.impl = "service" /\ emb.pc = "returned") =>
    LET out == Val(emb.result)
    IN /\ Len(out) = Len(emb.texts)
       /\ emb.texts = <<>> => emb.sent = <<>>
       /\ emb.texts # <<>> =>
            /\ emb.n >= 1
            /\ Len(Flatten(emb.sent)) = Len(emb.texts)
            /\ \A k \in 1..Len(emb.texts) :
                 EndsWith(Flatten(emb.sent)[k], strip(emb.texts[k]))
            /\ \A b \in 1..Len(emb.sent) :
                 Len(emb.sent[b]) = Min(emb.n, Len(emb.texts) - (b - 1) * emb.n)
            /\ \A k \in 1..Len(out) :
                 LET b == ((k - 1) \div emb.n) + 1
                 IN /\ out[k].req = b
                    /\ out[k].of = Len(emb.sent[b]) => out[k].pos = ((k - 1) % emb.n) + 1

\* three texts were embedded in two batches, the second text padded
C11_Witness ==
  /\ emb.impl = "service"
  /\ emb.pc = "returned"
  /\ Len(emb.texts) = 3
  /\ Len(emb.sent) = 2
  /\ emb.sent[1][2] = <<"b">>
  /\ Len(Val(emb.result)) = 3

\* a body of one of the accepted shapes
Recognised(body) ==
  \/ body.type = "list"
  \/ body.type = "dict" /\ body.key \in {"embeddings", "data", "embedding"}

\* the number of vectors a body carries
Carried(body) == Cardinality({j \in 1..Len(body.items) : body.items[j].kind # "dict_empty"})

\* an answer that the contract calls fatal for a batch of m texts
FatalAnswer(r, m) ==
  \/ ~r.connect
  \/ r.status < 200
  \/ r.status > 299
  \/ ~Recognised(r.body)
  \/ Carried(r.body) # m

\* C12: embed_texts returns no partial result: once a batch gets a connection
\* error, a non-success status, an unrecognised body or a number of vectors other
\* than that of its texts, the call has raised, it returns nothing, the failed
\* batch is the last one requested, and nothing more happens.
C12_NoPartialResults ==
  /\ []((emb.impl = "service" /\ emb.last # None
           /\ FatalAnswer(Val(emb.last), Len(emb.sent[Len(emb.sent)])))
          => (emb.pc = "raised" /\ emb.result = None /\ Len(emb.sent) = emb.k))
  /\ []((emb.impl = "service" /\ emb.pc = "returned" /\ emb.texts # <<>>)
          => (Len(emb.sent) = Len(emb.chunks) /\ Val(emb.result) = emb.out))
  /\ [][(emb.impl = "service" /\ emb.pc = "raised") => emb' = emb]_vars

\* the second batch failed after the first had given its vector
C12_Witness ==
  /\ emb.impl = "service"
  /\ emb.pc = "raised"
  /\ Len(emb.sent) = 2
  /\ Len(emb.chunks) = 3
  /\ Len(emb.out) = 1
  /\ Val(emb.last).connect
  /\ Val(emb.last).status = 200
  /\ Recognised(Val(emb.last).body)
  /\ emb.result = None

\* C14: an answer with a 2xx status and a body of an accepted shape (carrying one
\* vector per text) is a success: the call does not raise on it.
C14_Any2xxIsSuccess ==
  (/\ emb.last # None
   /\ Val(emb.last).connect
   /\ Val(emb.last).status >= 200
   /\ Val(emb.last).status <= 299
   /\ Recognised(Val(emb.last).body)
   /\ Carried(Val(emb.last).body) = Len(emb.sent[Len(emb.sent)])
   /\ Len(Val(emb.last).body.items) = Len(emb.sent[Len(emb.sent)]))
    => emb.pc # "raised"

\* the smallest integer that is at least a / b
Ceil(a, b) == (a + b - 1) \div b

\* the batch size of the call: the configured one, and 1 when that is below 1
EffectiveBatch == IF emb.batch >= 1 THEN emb.batch ELSE 1

\* C25: embed_texts sends one request per batch, in input order and one after
\* the other: a request is sent only when every earlier one has given its
\* vectors, every batch but the last has batch_size texts, a call that returns
\* has sent ceil(len(texts) / max(1, batch_size)) requests, and a call on no text
\* sends none and returns the empty list.
C25_OneRequestPerBatch ==
  /\ [](emb.impl = "service" =>
          /\ Len(emb.sent) <= Ceil(Len(emb.texts), EffectiveBatch)
          /\ \A b \in 1..Len(emb.sent) :
               /\ b < Ceil(Len(emb.texts), EffectiveBatch)
                    => Len(emb.sent[b]) = EffectiveBatch
               /\ \A j \in 1..Len(emb.sent[b]) :
                    /\ (b - 1) * EffectiveBatch + j <= Len(emb.texts)
                    /\ EndsWith(emb.sent[b][j],
                                strip(emb.texts[(b - 1) * EffectiveBatch + j]))
          /\ emb.pc = "returned"
               => /\ Len(emb.sent) = Ceil(Len(emb.texts), EffectiveBatch)
                  /\ Len(Flatten(emb.sent)) = Len(emb.texts)
                  /\ emb.texts = <<>> => (emb.sent = <<>> /\ emb.result = Some(<<>>)))
  /\ [][(emb.impl = "service" /\ Len(emb.sent') # Len(emb.sent))
          => /\ Len(emb.sent') = Len(emb.sent) + 1
             /\ SubSeq(emb.sent', 1, Len(emb.sent)) = emb.sent
             /\ emb.pc = "chunk"
             /\ Len(emb.out) = Len(Flatten(emb.sent))]_vars

\* three texts, batch size 2: two requests, of two texts and of one
C25_Witness ==
  /\ emb.impl = "service"
  /\ emb.pc = "returned"
  /\ emb.batch = 2
  /\ Len(emb.texts) = 3
  /\ Len(emb.sent) = 2
  /\ Len(emb.sent[1]) = 2
  /\ Len(emb.sent[2]) = 1

\* ------------------------------------------------------------ QdrantService
\* the operations of the gateway, and those whose body awaits ensure_collection
\* before its own request
OpKinds ==
  {"get_collection_count", "search_vectors", "upsert_points", "scroll_collection",
   "delete_points_by_filter", "delete_points_by_ids"}

calls_ensure(kind) == kind \in {"search_vectors", "upsert_points", "scroll_collection"}

\* An operation in progress. got: it has asked the store for the collection;
\* asked: it has issued its own request.
NewOp(kind) ==
  [kind |-> kind, pc |-> IF calls_ensure(kind) THEN "get" ELSE "request",
   got |-> FALSE, asked |-> FALSE, result |-> "none"]

\* an operation is called; it runs up to its first await
GwCall(kind) ==
  /\ Len(gw) < MaxOps
  /\ gw' = Append(gw, NewOp(kind))
  /\ coll' = coll

\* ensure_collection: "await client.get_collection(collection_name)", which
\* raises when the collection is missing
GwGet(p) ==
  /\ gw[p].pc = "get"
  /\ gw' = [gw EXCEPT ![p].got = TRUE,
                      ![p].pc = IF coll THEN "request" ELSE "create"]
  /\ coll' = coll

\* ensure_collection: "except Exception: await client.create_collection(...)"; the
\* store rejects the creation of a collection that exists, and nothing catches
\* that exception
GwCreate(p) ==
  /\ gw[p].pc = "create"
  /\ IF coll
       THEN /\ gw' = [gw EXCEPT ![p].pc = "raised", ![p].result = "create_conflict"]
            /\ coll' = coll
       ELSE /\ gw' = [gw EXCEPT ![p].pc = "request"]
            /\ coll' = TRUE

\* the request of the operation itself (count, search, upsert, scroll, delete),
\* which the store refuses when the collection is missing; get_collection_count
\* catches the exception and returns 0
GwRequest(p) ==
  /\ gw[p].pc = "request"
  /\ gw' = [gw EXCEPT ![p].asked = TRUE,
                      ![p].pc = IF coll \/ gw[p].kind = "get_collection_count"
                                  THEN "done" ELSE "raised",
                      ![p].result = IF coll THEN "ok"
                                    ELSE IF gw[p].kind = "get_collection_count"
                                      THEN "zero" ELSE "not_found"]
  /\ coll' = coll

GwInit ==
  /\ ServicesIdle
  /\ app = "none"
  /\ DriverIdle
  /\ ParserIdle

gw_others ==
  <<pvars, app, JOB, tasks, response, requests, job_status, svc, calls, store,
    ingested, again, emb, rnd, util>>

GwNext ==
  \/ \E kind \in OpKinds : GwCall(kind) /\ UNCHANGED gw_others
  \/ \E p \in 1..Len(gw) : GwGet(p) /\ UNCHANGED gw_others
  \/ \E p \in 1..Len(gw) : GwCreate(p) /\ UNCHANGED gw_others
  \/ \E p \in 1..Len(gw) : GwRequest(p) /\ UNCHANGED gw_others

SpecGateway == GwInit /\ [][GwNext]_vars

\* C15: every operation of the gateway ensures that the collection exists before
\* it issues its own request: no operation has issued its request without having
\* asked the store for the collection first.
C15_EnsureBeforeRequest ==
  \A p \in 1..Len(gw) : gw[p].asked => gw[p].got

\* C16: lazy creation never fails an operation: under every interleaving, an
\* operation that ensures the collection, the collection missing or not, goes on
\* to its own request and does not raise.
C16_LazyCreateNeverFails ==
  \A p \in 1..Len(gw) : calls_ensure(gw[p].kind) => gw[p].pc # "raised"

\* ------------------------------------------------- RandomSubtitleService
\* range(min(10, len(search_results))) and range(10): picks on one set of points
PicksPerSearch == 10
FallbackPicks == 10

\* "^zh" stands for one character of the CJK block U+4E00..U+9FFF
CJK == {"^zh"}

\* The payload of point k of a collection of the given quality, None when the
\* point has none. In a "bad" collection no point has two words; a "mixed" one
\* also has points of three words (in text, normalized_text empty) and of four.
PointPayload(k, quality) ==
  IF quality = "bad"
    THEN (IF k % 2 = 1
            THEN Some([text |-> <<"h", "i", "!">>, normalized_text |-> <<"h", "i">>])
            ELSE None)
  ELSE IF k % 3 = 1
    THEN Some([text |-> <<"h", "i", "!">>, normalized_text |-> <<"h", "i">>])
  ELSE IF k % 3 = 2
    THEN Some([text |-> <<"a", ",", " ", "b", ";", "c">>, normalized_text |-> <<>>])
  ELSE Some([text |-> <<"A", " ", "b", " ", "c", " ", "d">>,
             normalized_text |-> <<"a", " ", "b", " ", "c", " ", "d">>])

\* str.split(): the maximal runs of characters that are not whitespace
RECURSIVE split(_)
split(s) ==
  LET t == lstrip(s)
  IN IF Len(t) = 0 THEN <<>>
     ELSE LET stops == {i \in 1..Len(t) : t[i] \in Whitespace}
              end == IF stops = {} THEN Len(t) + 1
                     ELSE CHOOSE i \in stops : \A j \in stops : i <= j
          IN <<SubSeq(t, 1, end - 1)>> \o split(SubSeq(t, end, Len(t)))

\* the mutant lets every text pass
is_valid_always(word_count, min_words) == TRUE

\* is_valid = word_count >= min_words
is_valid(word_count, min_words) == word_count >= min_words

\* the mutant keeps every character: no punctuation becomes a space
quality_keeps_all(c) == TRUE

\* the characters that [^\w\s\u4e00-\u9fff] does not match
quality_keeps(c) == c \in WordChars \cup Whitespace \cup CJK

\* utils.validate_text_quality: (is_valid, word_count)
validate_text_quality(text, normalized_text, min_words) ==
  LET target_text == IF Len(normalized_text) > 0 THEN normalized_text ELSE text
      kept == [i \in 1..Len(target_text) |->
                 IF quality_keeps(target_text[i]) THEN target_text[i] ELSE " "]
      words == SelectSeq(split(strip(collapse_ws(kept))), LAMBDA w : Len(w) > 0)
  IN <<is_valid(Len(words), min_words), Len(words)>>

\* _validate_and_format_result: None, or the result; "point.payload or {}" and
\* payload.get(key, "") give empty strings for what is missing (in the result,
\* the payload None stands for the empty dict)
_validate_and_format_result(k, quality, min_words) ==
  LET payload == PointPayload(k, quality)
      text == IF payload = None THEN <<>> ELSE Val(payload).text
      normalized_text == IF payload = None THEN <<>> ELSE Val(payload).normalized_text
  IN IF validate_text_quality(text, normalized_text, min_words)[1]
       THEN Some([entryId |-> str(k), score |-> 1, payload |-> payload])
       ELSE None

\* the mutant ignores the argument
effective_min_words_default(min_words) == RANDOM_MIN_WORDS

\* min_words = min_words or config.RANDOM_MIN_WORDS
effective_min_words(min_words) ==
  IF min_words = None \/ Val(min_words) = 0 THEN RANDOM_MIN_WORDS ELSE Val(min_words)

\* the collections and the min_words arguments of the calls
Qualities == {"bad", "mixed"}

MinWordsArgs == {None, Some(0), Some(1), Some(4), Some(-1)}

\* _validate_and_format_result of every point, computed once for every collection
\* and every effective min_words
Validated ==
  [quality \in Qualities |->
    [min_words \in {effective_min_words(m) : m \in MinWordsArgs} |->
      [k \in 1..MaxPoints |-> _validate_and_format_result(k, quality, min_words)]]]

\* the mutant hands the requested limit to the store as it is
search_limit_raw(limit) == limit

\* search_vectors: limit=max(1, min(100, limit))
search_limit(limit) == IF limit > 100 THEN 100 ELSE IF limit < 1 THEN 1 ELSE limit

\* the points a search (a scroll) of the collection of n points gives
page(n, limit) == [k \in 1..Min(n, limit) |-> k]

\* the mutant ends phase 1 after one retry
vector_search_over_early(retry_count) == retry_count >= 1

\* "for retry_count in range(config.RANDOM_MAX_RETRIES)" is over
vector_search_over(retry_count) == retry_count >= RANDOM_MAX_RETRIES

\* the end of one retry, by "continue", by an exception or by the end of the picks:
\* the next retry, or "return None" and then the fallback of get_random_subtitle
next_retry(call) ==
  [call EXCEPT !.retry_count = @ + 1,
               !.pc = IF vector_search_over(call.retry_count + 1)
                        THEN "scroll" ELSE "search"]

\* the mutant picks once for every point of the result set
picks_allowed_all(results) == Len(results)

\* range(min(10, len(search_results)))
picks_allowed(results) == Min(PicksPerSearch, Len(results))

\* the mutant lets the exception of the fallback leave get_random_subtitle
fallback_failed_raises(call) == [call EXCEPT !.pc = "raised"]

\* "except Exception as e: ..." of _random_fallback_method, then "return None";
\* get_random_subtitle then returns None
fallback_failed(call) == [call EXCEPT !.pc = "returned", !.result = None]

\* get_random_subtitle is called on a collection of n points
RndCall(n, quality, min_words) ==
  /\ rnd.pc = "idle"
  /\ rnd.quality = "none"
  /\ rnd' = [RndIdle EXCEPT !.n = n, !.quality = quality, !.arg = min_words,
                            !.min_words = effective_min_words(min_words),
                            !.pc = IF vector_search_over(0) THEN "scroll" ELSE "search"]

\* one retry of _random_vector_search up to the picks: the search raises, or
\* gives nothing, or gives the points of the collection
RndSearch ==
  /\ rnd.pc = "search"
  /\ LET call == [rnd EXCEPT !.searches = @ + 1]
         failed == [call EXCEPT !.store_failed = TRUE]
     IN \/ rnd' = next_retry(failed)
        \/ \E search_results \in {<<>>, page(rnd.n, search_limit(RANDOM_SEARCH_LIMIT))} :
             rnd' = IF Len(search_results) = 0
                      THEN next_retry(IF rnd.n > 0 THEN failed ELSE call)
                    ELSE [call EXCEPT !.pc = "pick", !.results = search_results,
                                      !.tries = 0]

\* one pick of the retry: random.randint, validation; the result is returned, or
\* the next pick follows, or the next retry
RndPick ==
  /\ rnd.pc = "pick"
  /\ \E random_index \in 1..Len(rnd.results) :
       LET result == Validated[rnd.quality][rnd.min_words][rnd.results[random_index]]
           call == [rnd EXCEPT !.tries = @ + 1]
       IN rnd' = IF result # None
                   THEN [call EXCEPT !.pc = "returned", !.result = result,
                                     !.valid1 = TRUE]
                 ELSE IF call.tries >= picks_allowed(rnd.results)
                   THEN next_retry(call)
                 ELSE call

\* _random_fallback_method up to the picks: the scroll raises, or gives nothing,
\* or gives a page
RndScroll ==
  /\ rnd.pc = "scroll"
  /\ LET call == [rnd EXCEPT !.scrolls = @ + 1]
         failed == [call EXCEPT !.store_failed = TRUE]
     IN \/ rnd' = fallback_failed(failed)
        \/ \E scroll_result \in {<<>>, page(rnd.n, RANDOM_FALLBACK_BATCH_SIZE)} :
             rnd' = IF Len(scroll_result) = 0
                      THEN [(IF rnd.n > 0 THEN failed ELSE call)
                              EXCEPT !.pc = "returned", !.result = None]
                      ELSE [call EXCEPT !.pc = "fallback_pick",
                                        !.results = scroll_result, !.tries = 0]

\* one pick of the fallback: random.choice, validation
RndFallbackPick ==
  /\ rnd.pc = "fallback_pick"
  /\ \E random_point \in {rnd.results[j] : j \in 1..Len(rnd.results)} :
       LET result == Validated[rnd.quality][rnd.min_words][random_point]
           call == [rnd EXCEPT !.tries = @ + 1]
       IN rnd' = IF result # None
                   THEN [call EXCEPT !.pc = "returned", !.result = result]
                 ELSE IF call.tries >= FallbackPicks
                   THEN [call EXCEPT !.pc = "returned", !.result = None]
                 ELSE call

RndInit ==
  /\ ServicesIdle
  /\ app = "none"
  /\ DriverIdle
  /\ ParserIdle

rnd_others == <<pvars, dvars_only, emb, gw, util>>

RndNext ==
  \/ /\ \E n \in 0..MaxPoints, quality \in Qualities, min_words \in MinWordsArgs :
          RndCall(n, quality, min_words)
     /\ UNCHANGED rnd_others
  \/ RndSearch /\ UNCHANGED rnd_others
  \/ RndPick /\ UNCHANGED rnd_others
  \/ RndScroll /\ UNCHANGED rnd_others
  \/ RndFallbackPick /\ UNCHANGED rnd_others

\* the event loop runs the call whenever it can go on
SpecRandom == RndInit /\ [][RndNext]_vars /\ WF_vars(RndNext)

\* ------------------------------------------------ properties of the sampler
\* the number of words of s: the maximal runs of word characters (letters, digits,
\* underscore, CJK), everything else separating
InWord(s, i) == s[i] \in WordChars \cup CJK

WordCount(s) ==
  Cardinality({i \in 1..Len(s) : InWord(s, i) /\ (i = 1 \/ ~InWord(s, i - 1))})

\* the text of a payload that validation looks at: normalized_text, or text when
\* normalized_text is empty; nothing when there is no payload
TargetText(payload) ==
  IF payload = None THEN <<>>
  ELSE IF Val(payload).normalized_text # <<>> THEN Val(payload).normalized_text
  ELSE Val(payload).text

\* the effective min_words of the call: the configured default when none (or 0)
\* is given
EffectiveMin ==
  IF rnd.arg = None \/ rnd.arg = Some(0) THEN RANDOM_MIN_WORDS ELSE Val(rnd.arg)

\* C17: a result returned by get_random_subtitle, from either phase, is a point
\* of the collection whose text has at least the effective min_words words.
C17_ResultPassesValidation ==
  (rnd.pc = "returned" /\ rnd.result # None) =>
    \E k \in 1..rnd.n :
      /\ Val(rnd.result).entryId = str(k)
      /\ Val(rnd.result).payload = PointPayload(k, rnd.quality)
      /\ WordCount(TargetText(PointPayload(k, rnd.quality))) >= EffectiveMin

\* the fallback has returned a point of four words, asked with min_words 4
C17_Witness ==
  /\ rnd.pc = "returned"
  /\ rnd.result # None
  /\ rnd.scrolls = 1
  /\ rnd.arg = Some(4)
  /\ rnd.tries > 1

\* C18: the fallback scroll is issued only after phase 1 has made
\* RANDOM_MAX_RETRIES searches and no pick of phase 1 has validated; when a pick
\* of phase 1 validates, no scroll is issued.
C18_FallbackOnlyAfterRetries ==
  /\ [](rnd.scrolls > 0 => (rnd.searches = RANDOM_MAX_RETRIES /\ ~rnd.valid1))
  /\ [](rnd.valid1 => (rnd.scrolls = 0 /\ rnd.pc = "returned" /\ rnd.result # None))
  /\ [][rnd'.scrolls # rnd.scrolls
          => (rnd.searches = RANDOM_MAX_RETRIES /\ rnd.retry_count = RANDOM_MAX_RETRIES
              /\ ~rnd.valid1)]_vars

\* the fallback picks, after twenty searches of a collection without a good
\* point, some of which gave points that were all rejected
C18_Witness ==
  /\ rnd.pc = "fallback_pick"
  /\ rnd.searches = RANDOM_MAX_RETRIES
  /\ rnd.quality = "bad"
  /\ rnd.n = 2
  /\ rnd.scrolls = 1

\* C19: a call issues at most RANDOM_MAX_RETRIES searches and at most one scroll,
\* picks at most 10 times on one result set and on the fallback page, whatever
\* the backend does, and it ends.
C19_BoundedAndTerminates ==
  /\ [](/\ rnd.searches <= RANDOM_MAX_RETRIES
        /\ rnd.scrolls <= 1
        /\ rnd.tries <= 10
        /\ rnd.tries <= Len(rnd.results) \/ rnd.pc \in {"fallback_pick", "returned"})
  /\ <>(rnd.pc = "returned")

\* ten picks on a result set of eleven points were all rejected
C19_Witness ==
  /\ rnd.tries = 10
  /\ Len(rnd.results) = 11
  /\ rnd.scrolls = 0
  /\ rnd.retry_count >= 1
  /\ rnd.pc = "search"

\* no point of the collection passes validation (the empty collection included)
NoValidPoint ==
  \A k \in 1..rnd.n : WordCount(TargetText(PointPayload(k, rnd.quality))) < EffectiveMin

\* C20: a call never raises, and on an empty collection, or on one in which every
\* point fails the quality bar, it returns None.
C20_NoResultIsAValue ==
  /\ rnd.pc # "raised"
  /\ (rnd.pc = "returned" /\ rnd.quality # "none" /\ NoValidPoint) => rnd.result = None

\* the call on the empty collection has returned None after both phases
C20_Witness ==
  /\ rnd.pc = "returned"
  /\ rnd.n = 0
  /\ rnd.searches = RANDOM_MAX_RETRIES
  /\ rnd.scrolls = 1
  /\ rnd.result = None

\* every point of the collection passes validation under the effective min_words
AllPointsValid ==
  \A k \in 1..rnd.n : WordCount(TargetText(PointPayload(k, rnd.quality))) >= EffectiveMin

\* C30: on a collection that is not empty and of which every point passes the
\* quality check, while the store answers every request with the points, a call
\* returns the first pick of its first search, and no scroll is issued.
C30_FirstPickReturned ==
  /\ []((/\ rnd.n > 0
         /\ AllPointsValid
         /\ ~rnd.store_failed
         /\ rnd.pc \notin {"idle", "search"})
          => (/\ rnd.searches = 1
              /\ rnd.scrolls = 0
              /\ rnd.pc \in {"pick", "returned"}
              /\ rnd.pc = "pick" => rnd.tries = 0
              /\ rnd.pc = "returned"
                   => (rnd.tries = 1 /\ rnd.result # None /\ rnd.valid1)))
  /\ []((rnd.n > 0 /\ AllPointsValid /\ ~rnd.store_failed /\ rnd.pc = "search")
          => rnd.searches = 0)

\* the first pick of the first search of a collection of three good points has
\* been returned
C30_Witness ==
  /\ rnd.pc = "returned"
  /\ rnd.n = 3
  /\ rnd.quality = "mixed"
  /\ rnd.arg = Some(1)
  /\ ~rnd.store_failed
  /\ rnd.searches = 1
  /\ rnd.tries = 1
  /\ rnd.result # None

\* ---------------------------------------- utils.safe_point_id, any identifier
\* A raw identifier is an integer, [int |-> n], or anything else, given by its
\* str(): [str |-> s].
HexChars ==
  Digits \cup {"a", "b", "c", "d", "e", "f"} \cup {"A", "B", "C", "D", "E", "F"}

\* s.startswith(prefix)
startswith(s, prefix) ==
  Len(s) >= Len(prefix) /\ SubSeq(s, 1, Len(prefix)) = prefix

\* s.replace(old, ""), old not empty: the leftmost occurrence is cut out, and the
\* scan goes on after it
RECURSIVE remove(_, _)
remove(s, old) ==
  LET at(i) == SubSeq(s, i, i + Len(old) - 1) = old
      found == {i \in 1..(Len(s) - Len(old) + 1) : at(i)}
  IN IF found = {} THEN s
     ELSE LET first == CHOOSE i \in found : \A j \in found : i <= j
          IN SubSeq(s, 1, first - 1)
               \o remove(SubSeq(s, first + Len(old), Len(s)), old)

\* s.strip("{}")
RECURSIVE strip_braces(_)
strip_braces(s) ==
  IF Len(s) > 0 /\ s[1] \in {"{", "}"} THEN strip_braces(Tail(s))
  ELSE IF Len(s) > 0 /\ s[Len(s)] \in {"{", "}"}
    THEN strip_braces(SubSeq(s, 1, Len(s) - 1))
  ELSE s

\* uuid.UUID(s): hex = s.replace("urn:", "").replace("uuid:", ""), then
\* hex.strip("{}").replace("-", "")
uuid_hex(s) ==
  remove(strip_braces(remove(remove(s, <<"u", "r", "n", ":">>),
                             <<"u", "u", "i", "d", ":">>)),
         <<"-">>)

\* uuid.UUID(s) raises ValueError unless hex has 32 hexadecimal digits
UUIDRaises(s) ==
  ~(Len(uuid_hex(s)) = 32 /\ \A i \in 1..32 : uuid_hex(s)[i] \in HexChars)

\* str(uuid.UUID(s)): the 32 digits in lower case, 8-4-4-4-12
str_uuid(s) ==
  LET h == [i \in 1..32 |-> lower(uuid_hex(s)[i])]
  IN SubSeq(h, 1, 8) \o <<"-">> \o SubSeq(h, 9, 12) \o <<"-">> \o SubSeq(h, 13, 16)
       \o <<"-">> \o SubSeq(h, 17, 20) \o <<"-">> \o SubSeq(h, 21, 32)

\* utils.safe_point_id on any raw identifier; random is what uuid.uuid4() gives
\* in the call. The body is one try block: the ValueError of int(s) reaches the
\* outer except clause, which returns the random UUID.
safe_point_id_of(raw, random) ==
  IF "int" \in DOMAIN raw THEN [kind |-> "int", v |-> str(raw.int)]
  ELSE LET s == raw.str
       IN IF isdigit(s)
            THEN (IF IntRaises(s) THEN [kind |-> "uuid4", v |-> str(random)]
                  ELSE [kind |-> "int", v |-> str(int(s))])
          ELSE IF ~UUIDRaises(s) THEN [kind |-> "uuid", v |-> str_uuid(s)]
          ELSE [kind |-> "uuid5",
                v |-> <<"e", "a", "s", "y", "l", "i", "s", "h", ":">> \o s]

\* the identifiers of the check: small integers, every string of at most MaxRaw
\* characters of RawChars, and strings around the 32 digits of a UUID
RawChars == {"0", "7", "^2", "a", "-"}

Hex32 ==
  <<"1", "2", "3", "e", "4", "5", "6", "7", "E", "8", "9", "B", "1", "2", "d", "3",
    "a", "4", "5", "6", "4", "2", "6", "6", "1", "4", "1", "7", "4", "0", "0", "0">>

UuidSamples ==
  {Hex32,
   str_uuid(Hex32),
   <<"{">> \o str_uuid(Hex32) \o <<"}">>,
   <<"u", "r", "n", ":", "u", "u", "i", "d", ":">> \o str_uuid(Hex32),
   Tail(Hex32),
   <<"g">> \o Tail(Hex32)}

RawIds ==
  {[int |-> n] : n \in 0..MaxRaw}
    \cup {[str |-> s] : s \in UNION {[1..n -> RawChars] : n \in 0..MaxRaw}}
    \cup {[str |-> s] : s \in UuidSamples}

\* the values uuid.uuid4() may give
Randoms == 1..MaxRandom

KeyInit ==
  /\ util \in {[fn |-> "safe_point_id", arg |-> raw, out |-> <<>>] : raw \in RawIds}
  /\ emb = EmbIdle /\ gw = <<>> /\ rnd = RndIdle
  /\ app = "none"
  /\ DriverIdle
  /\ ParserIdle

util_others == <<pvars, dvars_only, emb, gw, rnd>>

\* a call of safe_point_id on the identifier
KeyCall ==
  /\ util.fn = "safe_point_id"
  /\ Len(util.out) < MaxCalls
  /\ \E random \in Randoms :
       util' = [util EXCEPT !.out = Append(@, safe_point_id_of(util.arg, random))]
  /\ UNCHANGED util_others

KeyNext == KeyCall

SpecKey == KeyInit /\ [][KeyNext]_vars

\* ------------------------------------------------ properties of safe_point_id
\* the number an all-digit string denotes
RECURSIVE Denotes(_)
Denotes(s) ==
  IF Len(s) = 0 THEN 0 ELSE 10 * Denotes(SubSeq(s, 1, Len(s) - 1)) + DigitVal(s[Len(s)])

\* the identifier is a string on which str.isdigit() holds
AllDigit(raw) == "str" \in DOMAIN raw /\ isdigit(raw.str)

\* every character of the string is a decimal digit
Decimal(s) == \A i \in 1..Len(s) : s[i] \in Digits

\* C22: safe_point_id returns a key for every identifier, two calls on the same
\* identifier return the same key, the key of an integer is that integer and the
\* key of an all-digit string is the integer it denotes.
C22_KeyIsAFunction ==
  util.fn = "safe_point_id" =>
    /\ \A i, j \in 1..Len(util.out) : util.out[i] = util.out[j]
    /\ \A i \in 1..Len(util.out) :
         /\ "int" \in DOMAIN util.arg
              => util.out[i] = [kind |-> "int", v |-> str(util.arg.int)]
         /\ AllDigit(util.arg)
              => /\ Decimal(util.arg.str)
                 /\ util.out[i] = [kind |-> "int", v |-> str(Denotes(util.arg.str))]

\* ------------------------------------------------------ utils.normalize_text
\* the texts of the check: every string of at most MaxChars characters of
\* TextChars
TextChars == {"a", "B", " ", ",", "_", DottedI}

Texts == UNION {[1..n -> TextChars] : n \in 0..MaxChars}

NormInit ==
  /\ util \in {[fn |-> "normalize_text", arg |-> t, out |-> <<>>] : t \in Texts}
  /\ emb = EmbIdle /\ gw = <<>> /\ rnd = RndIdle
  /\ app = "none"
  /\ DriverIdle
  /\ ParserIdle

\* normalize_text is called on the text, and then on its own result
NormCall ==
  /\ util.fn = "normalize_text"
  /\ Len(util.out) < MaxCalls
  /\ util' = [util EXCEPT !.out = Append(@, normalize_text(IF Len(util.out) = 0
                                                            THEN util.arg
                                                            ELSE util.out[Len(util.out)]))]
  /\ UNCHANGED util_others

NormNext == NormCall

SpecNorm == NormInit /\ [][NormNext]_vars

\* C23: normalize_text is idempotent: normalize_text(normalize_text(t)) is
\* normalize_text(t), for every text t.
C23_NormalizeIdempotent ==
  (util.fn = "normalize_text" /\ Len(util.out) >= 2) => util.out[2] = util.out[1]

\* ----------------------------------------------- utils.validate_text_quality
\* the arguments of the check: every text of at most MaxChars characters of
\* QualityChars and the two texts of the examples, with and without a
\* normalized text, and the values of min_words
QualityChars == {"a", " ", ","} \cup CJK

QualityTexts ==
  UNION {[1..n -> QualityChars] : n \in 0..MaxChars}
    \cup {<<"a", " ", "b">>, <<"a", " ", "b", " ", "c">>}

QualityArgs ==
  {[text |-> t, normalized_text |-> nt, min_words |-> m] :
     t \in QualityTexts, nt \in {<<>>, <<"x", " ", "y">>}, m \in 0..MaxMinWords}

QualityInit ==
  /\ util \in {[fn |-> "validate_text_quality", arg |-> a, out |-> <<>>] :
                 a \in QualityArgs}
  /\ emb = EmbIdle /\ gw = <<>> /\ rnd = RndIdle
  /\ app = "none"
  /\ DriverIdle
  /\ ParserIdle

\* a call of validate_text_quality
QualityCall ==
  /\ util.fn = "validate_text_quality"
  /\ Len(util.out) = 0
  /\ util' = [util EXCEPT !.out = <<validate_text_quality(util.arg.text,
                                                          util.arg.normalized_text,
                                                          util.arg.min_words)>>]
  /\ UNCHANGED util_others

QualityNext == QualityCall

SpecQuality == QualityInit /\ [][QualityNext]_vars

\* C24: validate_text_quality returns (valid, word_count), word_count being the
\* number of words of the text looked at (the maximal runs of characters that are
\* neither punctuation nor space) and valid being word_count >= min_words; "a b"
\* with min_words 3 gives (false, 2) and "a b c" with min_words 3 gives (true, 3).
C24_QualityCountsWords ==
  (util.fn = "validate_text_quality" /\ Len(util.out) = 1) =>
    LET a == util.arg
        looked == IF a.normalized_text # <<>> THEN a.normalized_text ELSE a.text
    IN /\ util.out[1] = <<WordCount(looked) >= a.min_words, WordCount(looked)>>
       /\ (a = [text |-> <<"a", " ", "b">>, normalized_text |-> <<>>, min_words |-> 3])
            => util.out[1] = <<FALSE, 2>>
       /\ (a = [text |-> <<"a", " ", "b", " ", "c">>, normalized_text |-> <<>>,
                min_words |-> 3])
            => util.out[1] = <<TRUE, 3>>

\* the second example has been evaluated
C24_Witness ==
  /\ util.fn = "validate_text_quality"
  /\ util.arg = [text |-> <<"a", " ", "b", " ", "c">>, normalized_text |-> <<>>,
                 min_words |-> 3]
  /\ util.out = << <<TRUE, 3>> >>

\* ------------------------------------------- QdrantService.search_vectors
\* the limits a caller may ask for: from LimitSpan below 0 to LimitSpan above 100
Limits == (0 - LimitSpan)..(100 + LimitSpan)

SearchInit ==
  /\ util \in {[fn |-> "search_vectors", arg |-> limit, out |-> <<>>] : limit \in Limits}
  /\ emb = EmbIdle /\ gw = <<>> /\ rnd = RndIdle
  /\ app = "none"
  /\ DriverIdle
  /\ ParserIdle

\* a call of search_vectors (of POST /query): the limit that client.search gets
SearchCall ==
  /\ util.fn = "search_vectors"
  /\ Len(util.out) = 0
  /\ util' = [util EXCEPT !.out = <<search_limit(util.arg)>>]
  /\ UNCHANGED util_others

SearchNext == SearchCall

SpecSearch == SearchInit /\ [][SearchNext]_vars

\* C26: the limit that search_vectors passes to the store is in 1..100: the
\* requested one when that is in 1..100, 1 when it is below (zero and negative
\* included), 100 when it is above.
C26_LimitClamped ==
  (util.fn = "search_vectors" /\ Len(util.out) = 1) =>
    /\ util.out[1] \in 1..100
    /\ util.arg \in 1..100 => util.out[1] = util.arg
    /\ util.arg < 1 => util.out[1] = 1
    /\ util.arg > 100 => util.out[1] = 100

\* a search asked with a negative limit has been passed on
C26_Witness ==
  /\ util.fn = "search_vectors"
  /\ util.arg < 0
  /\ util.out = <<1>>

\* ----------------------------------------------- specification of the parsers
ParseInit ==
  /\ pin \in {[shape |-> sh, lines |-> GenLines(sh), gen |-> TRUE] : sh \in Shapes}
             \cup {[shape |-> ExampleShape, lines |-> ExampleLines, gen |-> FALSE]}
  /\ pout = None
  /\ fname = ExampleName
  /\ fparsed = Some(_parse_filename(ExampleName))
  /\ app = "none"
  /\ DriverIdle
  /\ ServicesIdle

\* both parsers applied to the file, under the identity of "show_01.srt"
ParseContent ==
  /\ pout = None
  /\ LET f == Val(fparsed)
     IN pout' = Some([svc |-> _parse_srt_content(pin.lines, f.video_id, f.episode),
                      main |-> main_parse_file(pin.lines, f.video_id, f.episode,
                                               <<>>, <<>>)])
  /\ UNCHANGED <<pin, fname, fparsed>>
  /\ UNCHANGED dvars

ParseNext == ParseContent

SpecParse == ParseInit /\ [][ParseNext]_vars

\* ------------------------------------------ specification of _parse_filename
NameChars == {"a", "_", "0", "1", "2"}
Stems == UNION {[1..n -> NameChars] : n \in 0..MaxStem}

NameInit ==
  /\ fname \in {st \o Srt : st \in Stems}
  /\ fparsed = None
  /\ pin = [shape |-> <<>>, lines |-> <<>>, gen |-> TRUE]
  /\ pout = None
  /\ app = "none"
  /\ DriverIdle
  /\ ServicesIdle

ParseFilename ==
  /\ fparsed = None
  /\ fparsed' = Some(_parse_filename(fname))
  /\ UNCHANGED <<pin, pout, fname>>
  /\ UNCHANGED dvars

NameNext == ParseFilename

SpecName == NameInit /\ [][NameNext]_vars

\* ------------------------------ _parse_filename on two files of a directory
\* the two files: different names, stems of at most MaxPairStem characters
PairChars == {"a", "_", "0", "1"}

PairStems == UNION {[1..n -> PairChars] : n \in 0..MaxPairStem}

PairInit ==
  /\ util \in {[fn |-> "_parse_filename", arg |-> <<s1 \o Srt, s2 \o Srt>>,
                out |-> <<>>] : s1, s2 \in PairStems}
  /\ util.arg[1] # util.arg[2]
  /\ emb = EmbIdle /\ gw = <<>> /\ rnd = RndIdle
  /\ app = "none"
  /\ DriverIdle
  /\ ParserIdle

\* _process_srt_file on each of the two files, up to the identity of the file:
\* video_id, episode = self._parse_filename(filename)
PairParse ==
  /\ util.fn = "_parse_filename"
  /\ Len(util.out) = 0
  /\ util' = [util EXCEPT !.out = <<_parse_filename(util.arg[1]),
                                    _parse_filename(util.arg[2])>>]
  /\ UNCHANGED util_others

PairNext == PairParse

SpecPair == PairInit /\ [][PairNext]_vars

\* C29: two files of a directory whose stems differ get different identities
\* (video_id, episode), so that the entries of one never get the entry id, hence
\* the point key, of an entry of the other.
C29_DistinctFilesDistinctIds ==
  (util.fn = "_parse_filename" /\ Len(util.out) = 2) =>
    /\ util.out[1] # util.out[2]
    /\ \A seq \in 1..MaxLines :
         entry_id(util.out[1].video_id, util.out[1].episode, seq)
           # entry_id(util.out[2].video_id, util.out[2].episode, seq)

\* ------------------------------------------------- properties of the parsers
\* The blocks of a file: the maximal runs of non-blank lines, each given as the
\* positions of its lines.
RECURSIVE BlocksFrom(_, _, _)
BlocksFrom(shape, i, cur) ==
  IF i > Len(shape) THEN (IF cur = <<>> THEN <<>> ELSE <<cur>>)
  ELSE IF shape[i] = "blank"
    THEN (IF cur = <<>> THEN <<>> ELSE <<cur>>) \o BlocksFrom(shape, i + 1, <<>>)
    ELSE BlocksFrom(shape, i + 1, Append(cur, i))

BlocksOf(shape) == BlocksFrom(shape, 1, <<>>)

\* a sequence line, then a timing line, then one or more text lines
WellFormedBlock(shape, b) ==
  /\ Len(b) >= 3
  /\ shape[b[1]] = "seq"
  /\ shape[b[2]] = "time"
  /\ \A k \in 3..Len(b) : shape[b[k]] = "text"

WellFormedFile(shape) ==
  \A k \in 1..Len(BlocksOf(shape)) : WellFormedBlock(shape, BlocksOf(shape)[k])

BlockText(b) == join([k \in 1..(Len(b) - 2) |-> strip(GenLine("text", b[k + 2]))])

ShowId(n) == <<"s", "h", "o", "w", "_", "1", "_">> \o str(n)

\* C7: a file of n well-formed blocks (sequence line, timing line, text lines)
\* parses to exactly n entries in file order, the k-th with the id
\* video_episode_sequence, the milliseconds of the k-th timing line and the k-th
\* block's text lines joined by single spaces; show_01.srt with its two blocks
\* gives show_1_1 and show_1_2 with timings 1000/2000 and 3500/4250.
C7_WellFormedFileParsed ==
  pout # None =>
    LET e == Val(pout).svc.entries
        blocks == BlocksOf(pin.shape)
    IN /\ (pin.gen /\ WellFormedFile(pin.shape)) =>
            /\ ~Val(pout).svc.raised
            /\ Len(e) = Len(blocks)
            /\ \A k \in 1..Len(blocks) :
                 /\ e[k].id = ShowId(blocks[k][1])
                 /\ e[k].payload.video_id = <<"s", "h", "o", "w">>
                 /\ e[k].payload.episode = 1
                 /\ e[k].payload.sequence = blocks[k][1]
                 /\ e[k].payload.start_ms = StampMs(StartStamp(blocks[k][2]))
                 /\ e[k].payload.end_ms = StampMs(EndStamp(blocks[k][2]))
                 /\ e[k].text = BlockText(blocks[k])
                 /\ e[k].payload.text = BlockText(blocks[k])
       /\ ~pin.gen =>
            /\ Len(e) = 2
            /\ e[1].id = <<"s", "h", "o", "w", "_", "1", "_", "1">>
            /\ e[2].id = <<"s", "h", "o", "w", "_", "1", "_", "2">>
            /\ e[1].payload.episode = 1 /\ e[2].payload.episode = 1
            /\ e[1].payload.start_ms = 1000 /\ e[1].payload.end_ms = 2000
            /\ e[2].payload.start_ms = 3500 /\ e[2].payload.end_ms = 4250
            /\ e[1].text = ExampleLines[3]
            /\ e[2].text = ExampleLines[7]

\* a generated well-formed file of two blocks has been parsed
C7_Witness ==
  /\ pout # None
  /\ pin.gen
  /\ WellFormedFile(pin.shape)
  /\ Len(BlocksOf(pin.shape)) = 2
  /\ Len(Val(pout).svc.entries) = 2

\* the block has a sequence line, a later timing line and a line after that
CompleteBlock(shape, b) ==
  \E i, j \in 1..Len(b) :
    i < j /\ j < Len(b) /\ shape[b[i]] = "seq" /\ shape[b[j]] = "time"

\* the position of the first sequence line of a block
FirstSeq(shape, b) ==
  b[CHOOSE i \in 1..Len(b) :
      shape[b[i]] = "seq" /\ \A j \in 1..(i - 1) : shape[b[j]] # "seq"]

\* the positions of the first sequence lines of the complete blocks, in file order
RECURSIVE CompleteSeqs(_, _)
CompleteSeqs(shape, blocks) ==
  IF Len(blocks) = 0 THEN <<>>
  ELSE (IF CompleteBlock(shape, blocks[1])
          THEN <<FirstSeq(shape, blocks[1])>> ELSE <<>>)
       \o CompleteSeqs(shape, Tail(blocks))

\* C8: a block yields an entry only if, within the block, a sequence line was
\* seen, a later line matched the timing pattern and a text line followed; a
\* block missing its sequence, its timing or its text yields none, wherever it
\* stands in the file. The entries are exactly those of the complete blocks, in
\* both parsers.
C8_OnlyCompleteBlocksEmitted ==
  (pout # None /\ pin.gen) =>
    LET want == CompleteSeqs(pin.shape, BlocksOf(pin.shape))
        e == Val(pout).svc.entries
        m == Val(pout).main.entries_batch
    IN /\ Len(e) = Len(want)
       /\ \A k \in 1..Len(e) : e[k].payload.sequence = want[k]
       /\ Len(m) = Len(want)
       /\ \A k \in 1..Len(m) : m[k].payload.sequence = want[k]

\* a file was parsed in which a block without timing (sequence and text only)
\* follows a block that had a timing but no text, and nothing was emitted for them
C8_Witness ==
  /\ pout # None
  /\ pin.gen
  /\ Len(pin.shape) >= 6
  /\ SubSeq(pin.shape, 1, 6) = <<"seq", "time", "blank", "seq", "text", "blank">>
  /\ Len(Val(pout).svc.entries) = Len(BlocksOf(pin.shape)) - 2

\* C9: the loop processes one implicit blank line after the last real line, so
\* the entries are the same whether or not the file ends with a blank line, and
\* a final block that no blank line follows is still flushed.
C9_TrailingBlankIrrelevant ==
  pout # None =>
    LET f == Val(fparsed)
        more == Append(pin.lines, <<>>)
    IN /\ Val(pout).svc.entries
            = _parse_srt_content(more, f.video_id, f.episode).entries
       /\ Val(pout).main.entries_batch
            = main_parse_file(more, f.video_id, f.episode, <<>>, <<>>).entries_batch

\* a file whose last line is a text line was parsed and its last block emitted
C9_Witness ==
  /\ pout # None
  /\ pin.gen
  /\ Len(pin.shape) >= 3
  /\ pin.shape[Len(pin.shape)] = "text"
  /\ LET blocks == BlocksOf(pin.shape)
         e == Val(pout).svc.entries
     IN /\ CompleteBlock(pin.shape, blocks[Len(blocks)])
        /\ Len(e) >= 1
        /\ e[Len(e)].payload.sequence = FirstSeq(pin.shape, blocks[Len(blocks)])

\* the text of the lines of block b that follow position j, joined
TextAfter(lines, b, j) ==
  LET later == SelectSeq(b, LAMBDA p : p > j)
  IN strip(join([k \in 1..Len(later) |-> strip(lines[later[k]])]))

\* C28: _parse_srt_content carries nothing from one block into another: the
\* sequence, the start and end milliseconds and the text of every emitted entry
\* come from lines of one and the same block, also after blocks that were
\* discarded without the block state being cleared.
C28_NoCarryOverBetweenBlocks ==
  (pout # None /\ pin.gen /\ ~Val(pout).svc.raised) =>
    LET e == Val(pout).svc.entries
        blocks == BlocksOf(pin.shape)
    IN \A k \in 1..Len(e) :
         \E n \in 1..Len(blocks) :
           \E i, j \in {blocks[n][q] : q \in 1..Len(blocks[n])} :
             /\ i < j
             /\ pin.shape[i] = "seq"
             /\ pin.shape[j] = "time"
             /\ e[k].payload.sequence = i
             /\ e[k].payload.start_ms = StampMs(StartStamp(j))
             /\ e[k].payload.end_ms = StampMs(EndStamp(j))
             /\ e[k].text = TextAfter(pin.lines, blocks[n], j)
             /\ e[k].payload.text = e[k].text

\* a block with sequence and timing but no text was discarded, its state left
\* behind, and the complete block after it gave the only entry
C28_Witness ==
  /\ pout # None
  /\ pin.gen
  /\ pin.shape = <<"seq", "time", "blank", "seq", "time", "text">>
  /\ Len(Val(pout).svc.entries) = 1
  /\ Val(pout).svc.entries[1].payload.sequence = 4
  /\ Val(pout).svc.entries[1].payload.start_ms = StampMs(StartStamp(5))

\* --------------------------------------------- properties of _parse_filename
\* the length of the longest run of digits that ends s
RECURSIVE TrailingDigits(_)
TrailingDigits(s) ==
  IF Len(s) > 0 /\ s[Len(s)] \in Digits
  THEN 1 + TrailingDigits(SubSeq(s, 1, Len(s) - 1))
  ELSE 0

\* C10: when the stem ends in _<digits>, episode is that number and video_id the
\* stem without the suffix; otherwise episode is 1 and video_id the whole stem;
\* of several trailing _<digits> groups only the last is the episode (a_1_2 gives
\* a_1 and 2).
C10_FilenameSplit ==
  fparsed # None =>
    LET stem == splitext_root(fname)
        n == Len(stem)
        d == TrailingDigits(stem)
        r == Val(fparsed)
    IN /\ IF d >= 1 /\ n > d /\ stem[n - d] = "_"
            THEN /\ r.video_id = SubSeq(stem, 1, n - d - 1)
                 /\ r.episode = int(SubSeq(stem, n - d + 1, n))
            ELSE /\ r.video_id = stem
                 /\ r.episode = 1
       /\ stem = <<"a", "_", "1", "_", "2">> =>
            r = [video_id |-> <<"a", "_", "1">>, episode |-> 2]

\* a stem with two trailing _<digits> groups has been split
C10_Witness ==
  /\ fparsed # None
  /\ fname = <<"a", "_", "1", "_", "2">> \o Srt
  /\ Val(fparsed) = [video_id |-> <<"a", "_", "1">>, episode |-> 2]

====
